---- MODULE Spec2Model ----
(***************************************************************************)
(* Task orchestration of Taskbot-MVP.                                      *)
(*                                                                         *)
(* TaskManager (src/app/services/task_manager.py) run against the task     *)
(* table through BitableClient.get_task / update_task                      *)
(* (src/app/bitable.py:908-1001), the only implementation in the source of *)
(* the get_task(task_id) / update_task(task_id, dict) interface that       *)
(* TaskManager calls.  Both are coroutines whose bodies issue synchronous  *)
(* HTTP requests (bitable.py:925, 994), so a TaskManager operation runs    *)
(* from its first store read to its last store write without yielding;     *)
(* one action per operation.                                               *)
(***************************************************************************)
EXTENDS Integers, Sequences, FiniteSets, TLC

VARIABLES
    store,      \* the task table: record id -> row of fields, or NoRow
    lastOp,     \* the TaskManager call that returned last, with what it did
    evalFails,  \* per task: failing evaluations applied so far (saturating)
    calls,      \* per request handler: the TaskManager call it is inside
    records,    \* the chat bot's task table: the rows in the order they were added
    chats,      \* number of task group chats created so far
    task_creation_cache,    \* creation key -> time of the last admitted request
    now,        \* time.time(), in seconds
    lastEvent,  \* the chat bot handler that returned last, with what it did
    admissions, \* per creation key: what became of the requests made with it
    processed_messages,     \* the ids of the messages handled so far
    inflight,   \* per request handler: the message event it is handling
    candidates, \* the candidate pool as the person table lists it
    top_candidates, \* what the last call of find_top_candidates returned
    _candidates_cache,  \* MatchingService: the pool as it was read last, or NoCache
    _cache_timestamp,   \* MatchingService: time.time() of the call that read it
    fetched_at, \* when the person table was read last
    scored,     \* a task and a candidate to score
    match_scores,   \* what the calls of calculate_match_score for them returned, and when
    backends,       \* LLMService: the names of the backends initialised, in their order
    default_backend,    \* settings.llm.default_backend
    matched,        \* what the last call of LLMService.match_candidates did
    task_table,     \* the task table with the task ids: its rows in the order of creation
    addressed,      \* the last update addressed by task id: the row meant, the row found
    commanded,      \* what the last call of handle_new_task_command did
    monitoring,     \* TaskMonitor.monitoring
    loops,          \* the runs of start_monitoring: where each is, whether it was stopped
    reminded_tasks, \* TaskMonitor.reminded_tasks: the keys of the reminders sent
    reminders,      \* per monitored task: how often each reminder was sent
    checked         \* per monitored task: the reminders its last check sent

tmVars == <<store, lastOp, evalFails, calls>>
msgVars == <<processed_messages, inflight>>
matchVars == <<candidates, top_candidates, _candidates_cache, _cache_timestamp,
               fetched_at, scored, match_scores>>
monVars == <<monitoring, loops, reminded_tasks, reminders, checked>>
svcVars == <<backends, default_backend, matched, task_table, addressed, commanded,
             monVars>>
botVars == <<records, chats, task_creation_cache, now, lastEvent, admissions, msgVars,
             matchVars, svcVars>>
vars == <<store, lastOp, evalFails, calls, records, chats, task_creation_cache, now,
          lastEvent, admissions, processed_messages, inflight, candidates,
          top_candidates, _candidates_cache, _cache_timestamp, fetched_at, scored,
          match_scores, backends, default_backend, matched, task_table, addressed,
          commanded, monitoring, loops, reminded_tasks, reminders, checked>>

-----------------------------------------------------------------------------
(* Bounds of the model *)

NTasks == 2
NUsers == 2
MaxRecords == 2         \* tasks the chat bot creates
MaxChats == 2           \* task group chats the chat bot creates
MaxTicks == 4           \* steps of the clock
NCands == 4             \* candidates in the person table

TaskNames == <<"rec1", "rec2", "rec3", "rec4">>
UserNames == <<"u1", "u2", "u3", "u4">>
ChatNames == <<"chat1", "chat2", "chat3", "chat4">>

Tasks == {TaskNames[i] : i \in 1..NTasks}
Users == {UserNames[i] : i \in 1..NUsers}

\* scores a caller or the evaluator can report: below, at and above the threshold
Scores == {40, 80, 85}

-----------------------------------------------------------------------------
(* Values *)

None == "None"          \* Python None in a string-valued field
NoScore == -1           \* Python None in final_score
NoRow == [absent |-> TRUE]
Ts == "ts"              \* datetime.now().isoformat(): some non-null timestamp
Url == "url"            \* a submission URL

\* TaskStatus
PENDING == "pending"
ASSIGNED == "assigned"
IN_PROGRESS == "in_progress"
SUBMITTED == "submitted"
REVIEWING == "reviewing"
COMPLETED == "completed"
REJECTED == "rejected"
CANCELLED == "cancelled"

TaskStatus ==
    {PENDING, ASSIGNED, IN_PROGRESS, SUBMITTED, REVIEWING, COMPLETED, REJECTED, CANCELLED}

\* settings.min_pass_score (auto_review_threshold)
min_pass_score == 80
\* settings.max_retry_attempts
max_retry_attempts == 2

\* the string-valued fields of a task row that TaskManager reads or writes
StrFields ==
    {"status", "assignee", "assigned_candidate", "assigned_at", "accepted_at",
     "submission_url", "submitted_at", "review_started_at", "review_note",
     "completed_at", "rejected_at"}

RowFields == StrFields \cup {"final_score"}

EmptyRow == [k \in RowFields |-> IF k = "final_score" THEN NoScore ELSE None]

\* dict.get(key, default)
DictGet(d, k, default) == IF k \in DOMAIN d THEN d[k] ELSE default

\* the row after an update of the fields named in upd
Merge(row, upd) == [k \in RowFields |-> IF k \in DOMAIN upd THEN upd[k] ELSE row[k]]

-----------------------------------------------------------------------------
(* The task store: BitableClient *)

\* keys of the dict get_task builds from a row
ViewKeys ==
    {"record_id", "taskid", "title", "description", "creator", "create_time",
     "status", "skilltags", "deadline", "urgency"}

\* what get_task returns when it finds nothing or fails (Python None)
NotFound == [absent |-> TRUE]

\* BitableClient.get_task: the row found by record id, cut down to the keys
\* get_task copies; None when the table cannot be read or holds no such row
GetTask(st, id, up) ==
    IF ~up \/ id \notin Tasks \/ st[id] = NoRow
    THEN NotFound
    ELSE [k \in ViewKeys \cap RowFields |-> st[id][k]]

\* keys update_task copies from update_data into the update it sends
MappedKeys == {"status", "title", "description", "deadline", "urgency", "skill_tags"}

MappedUpdate(update_data) ==
    [k \in (DOMAIN update_data) \cap MappedKeys |-> update_data[k]]

\* BitableClient.update_task: [store, ok, wrote]; wrote lists the statuses written.
\* up: the table service answers this call's requests
UpdateTask(st, id, update_data, up) ==
    IF GetTask(st, id, up) = NotFound
    THEN [store |-> st, ok |-> FALSE, wrote |-> <<>>]
    ELSE LET m == MappedUpdate(update_data)
         IN  [store |-> [st EXCEPT ![id] = Merge(st[id], m)],
              ok |-> TRUE,
              wrote |-> IF "status" \in DOMAIN m THEN <<m["status"]>> ELSE <<>>]

\* BitableClient.create_task: the row as created from task_record
CreatedRow == [EmptyRow EXCEPT !["status"] = PENDING]

-----------------------------------------------------------------------------
(* Notifications: FeishuService.send_message(user_id, message) *)

Msg(to, kind) == [to |-> to, kind |-> kind]

\* the messages a run of sends delivers: a send that raises ends the run
Deliver(msgs, sendOk) == IF sendOk THEN msgs ELSE <<>>

-----------------------------------------------------------------------------
(* The review evaluator: CIService.evaluate_submission *)

\* it raises, or returns a score and a list of failed reasons
EvalOutcomes ==
    {[raises |-> TRUE, score |-> NoScore, nreasons |-> 0]}
    \cup {[raises |-> FALSE, score |-> s, nreasons |-> n] : s \in Scores, n \in {0, 1}}

-----------------------------------------------------------------------------
(* TaskManager *)

NoOp == [op |-> "none", task |-> None, user |-> None, score |-> NoScore,
         writes |-> <<>>, sent |-> <<>>, atEval |-> None, verdict |-> None,
         result |-> FALSE, arg |-> None]

Done(op, t, u, score, writes, sent, result) ==
    [op |-> op, task |-> t, user |-> u, score |-> score,
     writes |-> writes, sent |-> sent, atEval |-> None, verdict |-> None,
     result |-> result, arg |-> None]

\* the fields create_task requires
required_fields == {"title", "description", "skill_tags", "deadline"}

\* task_data as a caller may give it: complete; without one of its keys; with an
\* empty list of skills; with a deadline that has passed
TaskDatas ==
    {[absent |-> None, blank |-> None, deadline |-> "future"],
     [absent |-> "title", blank |-> None, deadline |-> "future"],
     [absent |-> None, blank |-> "skill_tags", deadline |-> "future"],
     [absent |-> None, blank |-> None, deadline |-> "past"]}

\* create_task: no required field is missing from task_data
HasRequiredFields(task_data) == task_data.absent \notin required_fields

\* TaskManager.create_task: a ValueError for a missing field is raised to the
\* caller; otherwise the row is stored by BitableClient.create_task, which returns
\* None when the request fails
CreateTask(t, u, task_data, up) ==
    /\ store[t] = NoRow
    /\ IF HasRequiredFields(task_data)
       THEN /\ store' = IF up THEN [store EXCEPT ![t] = CreatedRow] ELSE store
            /\ lastOp' = [Done("create_task", t, u, NoScore,
                               IF up THEN <<PENDING>> ELSE <<>>, <<>>, up)
                          EXCEPT !.arg = task_data]
       ELSE /\ UNCHANGED store
            /\ lastOp' = [Done("create_task", t, u, NoScore, <<>>, <<>>, FALSE)
                          EXCEPT !.arg = task_data]

\* TaskManager.assign_task_to_candidate
AssignTaskToCandidate(t, c, up, sendOk) ==
    LET update_data == [status |-> ASSIGNED, assigned_candidate |-> c,
                        assigned_at |-> Ts]
        r == UpdateTask(store, t, update_data, up)
    IN  /\ store' = r.store
        /\ lastOp' = Done("assign_task_to_candidate", t, c, NoScore, r.wrote,
                          IF r.ok THEN Deliver(<<Msg(c, "assigned")>>, sendOk)
                                  ELSE <<>>,
                          r.ok /\ sendOk)

\* accept_task without its check that the user is one of the task's candidates
AcceptAllowedAnyUser(task, user_id) ==
    /\ task # NotFound
    /\ task["status"] = ASSIGNED

\* the checks of accept_task on the task it read
AcceptAllowed(task, user_id) ==
    /\ task # NotFound
    /\ task["status"] = ASSIGNED
    /\ user_id \in DictGet(task, "candidates", {})

\* accept_task past its checks: [store, wrote, sent, result]
AcceptEffect(st, t, task, u, up, sendOk) ==
    LET update_data == [status |-> IN_PROGRESS, assignee |-> u, accepted_at |-> Ts]
        r == UpdateTask(st, t, update_data, up)
        others == DictGet(task, "candidates", {}) \ {u}
        toCreator == IF DictGet(task, "created_by", None) # None
                     THEN <<Msg(task["created_by"], "accepted")>> ELSE <<>>
        msgs == IF others = {} THEN toCreator
                ELSE <<Msg(CHOOSE c \in others : TRUE, "taken")>> \o toCreator
    IN  [store |-> r.store, wrote |-> r.wrote, sent |-> Deliver(msgs, sendOk),
         result |-> (msgs = <<>> \/ sendOk)]

\* TaskManager.accept_task
AcceptTask(t, u, up1) ==
    LET task == GetTask(store, t, up1)
    IN  IF AcceptAllowed(task, u)
        THEN \E up2, sendOk \in BOOLEAN :
                LET e == AcceptEffect(store, t, task, u, up2, sendOk)
                IN  /\ store' = e.store
                    /\ lastOp' = Done("accept_task", t, u, NoScore, e.wrote,
                                      e.sent, e.result)
        ELSE /\ lastOp' = Done("accept_task", t, u, NoScore, <<>>, <<>>, FALSE)
             /\ UNCHANGED store

\* TaskManager._complete_task: [store, wrote, sent]
CompleteEffect(st, t, task_data, score, up, sendOk) ==
    LET assignee == DictGet(task_data, "assignee", None)
        update_data == [status |-> COMPLETED, completed_at |-> Ts,
                        final_score |-> score, review_result |-> "passed"]
        r == UpdateTask(st, t, update_data, up)
        toCreator == IF DictGet(task_data, "created_by", None) # None
                     THEN <<Msg(task_data["created_by"], "completed")>> ELSE <<>>
    IN  [store |-> r.store, wrote |-> r.wrote,
         sent |-> Deliver(<<Msg(assignee, "completed")>> \o toCreator, sendOk)]

\* TaskManager._reject_task: [store, wrote, sent]
RejectEffect(st, t, task_data, score, up, sendOk) ==
    LET assignee == DictGet(task_data, "assignee", None)
        update_data == [status |-> REJECTED, rejected_at |-> Ts,
                        final_score |-> score, review_result |-> "failed",
                        failed_reasons |-> "reasons"]
        r == UpdateTask(st, t, update_data, up)
    IN  [store |-> r.store, wrote |-> r.wrote,
         sent |-> Deliver(<<Msg(assignee, "rejected")>>, sendOk)]

\* review_data as the callers build it: with or without a final_score
ReviewDatas == {[final_score |-> s] : s \in Scores} \cup {[review_result |-> "r"]}

\* TaskManager.complete_task
CompleteTask(t, review_data, up1) ==
    LET task == GetTask(store, t, up1)
        score == DictGet(review_data, "final_score", 100)
    IN  IF task = NotFound
        THEN /\ lastOp' = Done("complete_task", t, None, score, <<>>, <<>>, FALSE)
             /\ UNCHANGED store
        ELSE \E up2, sendOk \in BOOLEAN :
                LET e == CompleteEffect(store, t, task, score, up2, sendOk)
                IN  /\ store' = e.store
                    /\ lastOp' = [Done("complete_task", t, None, score, e.wrote,
                                       e.sent, TRUE)
                                  EXCEPT !.verdict = "passed"]

\* TaskManager.reject_task
RejectTask(t, review_data, up1) ==
    LET task == GetTask(store, t, up1)
        score == DictGet(review_data, "final_score", 0)
    IN  IF task = NotFound
        THEN /\ lastOp' = Done("reject_task", t, None, score, <<>>, <<>>, FALSE)
             /\ UNCHANGED store
        ELSE \E up2, sendOk \in BOOLEAN :
                LET e == RejectEffect(store, t, task, score, up2, sendOk)
                IN  /\ store' = e.store
                    /\ lastOp' = [Done("reject_task", t, None, score, e.wrote,
                                       e.sent, TRUE)
                                  EXCEPT !.verdict = "failed"]

\* submit_task with only its check that the task exists
SubmitAllowedAnyStatus(task, user_id) == task # NotFound

\* the checks of submit_task on the task it read
SubmitAllowed(task, user_id) ==
    /\ task # NotFound
    /\ task["status"] = IN_PROGRESS
    /\ DictGet(task, "assignee", None) = user_id

\* TaskManager._auto_quality_check: [store, wrote, sent, atEval]; atEval is the
\* stored status of the task when evaluate_submission is called
QualityCheckEffect(st, t, task_data, out, up3, up4, sendOk) ==
    LET r == UpdateTask(st, t, [status |-> REVIEWING, review_started_at |-> Ts], up3)
        passed == out.score >= min_pass_score /\ out.nreasons = 0
        e == IF out.raises
             THEN LET d == UpdateTask(r.store, t,
                                      [status |-> REVIEWING, review_note |-> "manual"],
                                      up4)
                  IN  [store |-> d.store, wrote |-> d.wrote, sent |-> <<>>]
             ELSE IF passed
                  THEN CompleteEffect(r.store, t, task_data, out.score, up4, sendOk)
                  ELSE RejectEffect(r.store, t, task_data, out.score, up4, sendOk)
    IN  [store |-> e.store, wrote |-> r.wrote \o e.wrote, sent |-> e.sent,
         atEval |-> r.store[t]["status"],
         verdict |-> IF out.raises THEN "error"
                     ELSE IF passed THEN "passed" ELSE "failed"]

\* submit_task past its checks: [store, wrote, sent, atEval, verdict]
SubmitEffect(st, t, task, out, up2, up3, up4, sendOk) ==
    LET update_data == [status |-> SUBMITTED, submission_url |-> Url,
                        submission_note |-> "", submitted_at |-> Ts]
        r == UpdateTask(st, t, update_data, up2)
        q == QualityCheckEffect(r.store, t, task, out, up3, up4, sendOk)
    IN  [store |-> q.store, wrote |-> r.wrote \o q.wrote, sent |-> q.sent,
         atEval |-> q.atEval, verdict |-> q.verdict]

\* TaskManager.submit_task
SubmitTask(t, u, up1) ==
    LET task == GetTask(store, t, up1)
    IN  IF SubmitAllowed(task, u)
        THEN \E up2, up3, up4, sendOk \in BOOLEAN, out \in EvalOutcomes :
                LET e == SubmitEffect(store, t, task, out, up2, up3, up4, sendOk)
                IN  /\ store' = e.store
                    /\ lastOp' = [Done("submit_task", t, u, out.score, e.wrote,
                                       e.sent, TRUE)
                                  EXCEPT !.atEval = e.atEval,
                                         !.verdict = e.verdict]
        ELSE /\ lastOp' = Done("submit_task", t, u, NoScore, <<>>, <<>>, FALSE)
             /\ UNCHANGED store

\* the two request handlers that may be inside a call at the same time
Handlers == {"h1", "h2"}

Idle == [pc |-> "idle", op |-> "none", user |-> None, task_data |-> NotFound,
         raced |-> FALSE, result |-> FALSE]

-----------------------------------------------------------------------------
(* The chat bot (app/main.py) over its task table (MockBitableClient) *)

\* TaskStatus of the chat bot's table
DRAFT == "Draft"
BOT_ASSIGNED == "Assigned"
BOT_IN_PROGRESS == "InProgress"
RETURNED == "Returned"
DONE == "Done"
ARCHIVED == "Archived"

\* CIState
CIStates == {"Pending", "Success", "Failure", "Error"}

TASK_CREATION_WINDOW == 300

\* seconds the clock may advance between two events
TickSteps == {150}

MainChat == "main"
ChildChats == {ChatNames[i] : i \in 1..MaxChats}

\* message texts: two task requests and a mention that is no task request
Contents == {"@bot 新任务 A", "@bot 新任务 B", "@bot hi"}

\* FeishuService.extract_task_from_message finds a task in the text
HasTask(content) == content # "@bot hi"

\* task_key: the chat id and the MD5 digest of the content, which we take to
\* differ for different contents
TaskKey(chat_id, content) == <<chat_id, content>>

\* MockBitableClient.create_task: the fields of a new task
DraftFields ==
    [status |-> DRAFT, assignee_id |-> None, child_chat_id |-> None,
     ai_score |-> NoScore, ci_state |-> None, assigned_at |-> None, done_at |-> None]

\* MockBitableClient._init_mock_data: the task the table starts with
MockTask ==
    [DraftFields EXCEPT !["status"] = DONE, !["assignee_id"] = "user_123",
                        !["ai_score"] = 90]

\* no call of find_top_candidates has returned
NotRanked ==
    [called |-> FALSE, read |-> FALSE, result |-> <<>>, raised |-> FALSE,
     use_llm |-> FALSE, provider |-> None, provider_calls |-> 0, fetched |-> FALSE,
     pool |-> <<>>]

\* _candidates_cache is None
NoCache == [none |-> TRUE]

\* the person table has never been read
Never == -1

\* no task and candidate to score
NoInputs == [task_info |-> <<>>, candidate |-> <<>>]

\* a request handler that is handling no message event
NoMessage == [pc |-> "idle", id |-> None, outcome |-> None, cleaned |-> FALSE]

NoEvent == [handler |-> "none", key |-> <<>>, admitted |-> FALSE, created |-> FALSE,
            accepted |-> FALSE, record |-> 0, user |-> None, writes |-> <<>>,
            atEval |-> None, evalError |-> FALSE, chat |-> None, hasUrl |-> FALSE]

Event(handler) == [NoEvent EXCEPT !.handler = handler]

\* no LLMService has been constructed
NotInitialized == <<None>>

\* no call of match_candidates has returned
NotMatched ==
    [called |-> FALSE, backend_name |-> None, failing |-> {}, invoked |-> <<>>,
     responded |-> None]

\* no update has been addressed by task id
NotAddressed == [called |-> FALSE, task_id |-> <<>>, meant |-> 0, found |-> 0,
                 ok |-> FALSE]

\* runs of start_monitoring that are created
MaxLoops == 2

\* the tasks the monitor finds in the table, in status assigned, by their task ids:
\* created at time 0, with deadlines two and four days later
MonitoredTasks == <<"TASK_A", "TASK_B">>

MonitoredIds == {MonitoredTasks[i] : i \in 1..Len(MonitoredTasks)}

\* TaskMonitor.__init__, and no reminder sent
MonitorInit ==
    /\ monitoring = FALSE
    /\ loops = <<>>
    /\ reminded_tasks = {}
    /\ reminders = [t \in MonitoredIds |-> [half |-> 0, final |-> 0]]
    /\ checked = [t \in MonitoredIds |-> <<>>]

\* no call of handle_new_task_command has returned
NotCommanded == [called |-> FALSE, task_id |-> <<>>, save_success |-> FALSE,
                 card |-> FALSE]

\* the services before they are constructed, and the task table empty
ServicesInit ==
    /\ backends = NotInitialized
    /\ default_backend = "deepseek"
    /\ matched = NotMatched
    /\ task_table = <<>>
    /\ addressed = NotAddressed
    /\ commanded = NotCommanded
    /\ MonitorInit

BotInit ==
    /\ records = <<MockTask>>
    /\ chats = 0
    /\ task_creation_cache = <<>>
    /\ now = 0
    /\ lastEvent = NoEvent
    /\ admissions = <<>>
    /\ processed_messages = [others |-> 0, ids |-> {}]
    /\ inflight = [h \in Handlers |-> NoMessage]
    /\ candidates = <<>>
    /\ top_candidates = NotRanked
    /\ _candidates_cache = NoCache
    /\ _cache_timestamp = 0
    /\ fetched_at = Never
    /\ scored = NoInputs
    /\ match_scores = <<>>
    /\ ServicesInit

\* the window check with a request made exactly when the window ends still blocked
BlockedInclusive(cache, key, current_time) ==
    /\ key \in DOMAIN cache
    /\ current_time - cache[key] <= TASK_CREATION_WINDOW

\* the creation request is inside the window of an admitted one
Blocked(cache, key, current_time) ==
    /\ key \in DOMAIN cache
    /\ current_time - cache[key] < TASK_CREATION_WINDOW

\* the cache with key recorded, then the expired entries deleted
Recorded(cache, key, current_time) ==
    LET set == [k \in (DOMAIN cache) \cup {key} |->
                   IF k = key THEN current_time ELSE cache[k]]
        expired_keys == {k \in DOMAIN set : current_time - set[k] > TASK_CREATION_WINDOW}
    IN  [k \in (DOMAIN set) \ expired_keys |-> set[k]]

\* a blocked request takes the time of its own arrival for the entry
Refreshed(cache, key, current_time) == [cache EXCEPT ![key] = current_time]

\* the cache as a blocked request leaves it: the handler sends its warning and
\* returns before it writes to the cache
Declined(cache, key, current_time) == cache

\* handle_new_task_request. sendOk: the message that processing has begun is
\* delivered; if it is not, the handler ends before it creates the task
HandleNewTaskRequest(content, sendOk) ==
    LET task_key == TaskKey(MainChat, content)
        creates == HasTask(content) /\ sendOk
    IN  IF Blocked(task_creation_cache, task_key, now)
        THEN /\ lastEvent' = [Event("handle_new_task_request") EXCEPT
                                             !.key = task_key]
             /\ task_creation_cache' = Declined(task_creation_cache, task_key, now)
             /\ UNCHANGED <<records, chats, now>>
        ELSE /\ creates => Len(records) <= MaxRecords
             /\ task_creation_cache' = Recorded(task_creation_cache, task_key, now)
             /\ records' = IF creates THEN Append(records, DraftFields) ELSE records
             /\ lastEvent' = [Event("handle_new_task_request") EXCEPT
                                             !.key = task_key, !.admitted = TRUE,
                                             !.created = creates,
                                             !.record = IF creates THEN Len(records) + 1
                                                        ELSE 0]
             /\ UNCHANGED <<chats, now>>

\* time passes
Tick(d) ==
    /\ now + d <= MaxTicks * d
    /\ now' = now + d
    /\ UNCHANGED <<records, chats, task_creation_cache, lastEvent, admissions>>

\* MockBitableClient.update_record: the fields of row i updated
UpdateRecord(recs, i, fields) ==
    [recs EXCEPT ![i] = [k \in DOMAIN @ |-> IF k \in DOMAIN fields THEN fields[k] ELSE @[k]]]

\* handle_candidate_selection. i: the row the card names; feishuOk: the user is
\* looked up and the group chat is created
HandleCandidateSelection(i, selected_user_id, feishuOk) ==
    /\ chats < MaxChats
    /\ IF i \in 1..Len(records) /\ feishuOk
       THEN LET child_chat_id == ChatNames[chats + 1]
                fields == [assignee_id |-> selected_user_id,
                           child_chat_id |-> child_chat_id,
                           status |-> BOT_ASSIGNED, assigned_at |-> Ts]
            IN  /\ records' = UpdateRecord(records, i, fields)
                /\ chats' = chats + 1
                /\ lastEvent' = [Event("handle_candidate_selection") EXCEPT
                                                !.accepted = TRUE, !.record = i,
                                                !.user = selected_user_id,
                                                !.writes = <<BOT_ASSIGNED>>]
       ELSE /\ lastEvent' = [Event("handle_candidate_selection") EXCEPT
                                            !.user = selected_user_id]
            /\ UNCHANGED <<records, chats>>
    /\ UNCHANGED <<task_creation_cache, now>>

\* what the check of a submission returns: the CI state of a code task, or the
\* score of the review of any other task
Checks ==
    {[kind |-> "code", state |-> c, score |-> NoScore, raises |-> FALSE] :
        c \in {"Success", "Failure"}}
    \cup {[kind |-> "general", state |-> None, score |-> sc, raises |-> FALSE] :
             sc \in {0, min_pass_score}}
    \cup {[kind |-> "general", state |-> None, score |-> NoScore, raises |-> TRUE]}

\* LLMService.review_task_submission: the score the provider gave, or the fallback
\* when the request to the provider raises
ReviewScore(check) == IF check.raises THEN 0 ELSE check.score

\* the rows list_tasks(ASSIGNED) returns whose group chat is chat_id
AssignedIn(chat_id) ==
    {i \in 1..Len(records) : /\ records[i]["status"] = BOT_ASSIGNED
                             /\ records[i]["child_chat_id"] = chat_id}

\* process_code_task_submission / process_general_task_submission: the fields
\* update_task_status writes
CheckedFields(check) ==
    LET passed == IF check.kind = "code" THEN check.state = "Success"
                  ELSE ReviewScore(check) >= min_pass_score
    IN  [status |-> IF passed THEN DONE ELSE RETURNED,
         ci_state |-> check.state,
         ai_score |-> IF check.kind = "code" THEN NoScore ELSE ReviewScore(check),
         done_at |-> IF passed THEN Ts ELSE None]

\* handle_task_completion ("/done <link>" in a chat). hasUrl: a link follows the
\* command; sendOk: the message that the check has begun is delivered
HandleTaskCompletion(chat_id, sender_id, hasUrl) ==
    LET found == AssignedIn(chat_id)
        i == CHOOSE j \in found : \A k \in found : j <= k
        started == UpdateRecord(records, i, [status |-> BOT_IN_PROGRESS])
        Checked(check) ==
            LET f == CheckedFields(check)
            IN  UpdateRecord(started, i,
                    [k \in {"status", "done_at"}
                           \cup (IF check.kind = "code" THEN {"ci_state"} ELSE {"ai_score"})
                       |-> f[k]])
        called == [Event("handle_task_completion") EXCEPT
                                  !.user = sender_id, !.chat = chat_id, !.hasUrl = hasUrl]
        accepted == [called EXCEPT !.accepted = TRUE, !.record = i]
    IN  /\ IF hasUrl /\ found # {}
           THEN \E sendOk \in BOOLEAN, check \in Checks :
                   IF sendOk
                   THEN /\ records' = Checked(check)
                        /\ lastEvent' =
                               [accepted EXCEPT
                                   !.writes = <<BOT_IN_PROGRESS, CheckedFields(check)["status"]>>,
                                   !.atEval = BOT_IN_PROGRESS,
                                   !.evalError = check.raises]
                   ELSE /\ records' = started
                        /\ lastEvent' = [accepted EXCEPT !.writes = <<BOT_IN_PROGRESS>>]
           ELSE /\ lastEvent' = called
                /\ UNCHANGED records
        /\ UNCHANGED <<chats, task_creation_cache, now>>

NewTask == \E content \in Contents, sendOk \in BOOLEAN : HandleNewTaskRequest(content, sendOk)
Select == \E i \in 1..(MaxRecords + 1), u \in Users, feishuOk \in BOOLEAN :
             HandleCandidateSelection(i, u, feishuOk)
Completion == \E chat_id \in ChildChats \cup {MainChat}, u \in Users, hasUrl \in BOOLEAN :
                 HandleTaskCompletion(chat_id, u, hasUrl)

\* the chat bot with the clock standing still
NextBot ==
    \/ NewTask /\ UNCHANGED <<tmVars, admissions, msgVars, svcVars, matchVars>>
    \/ Select /\ UNCHANGED <<tmVars, admissions, msgVars, svcVars, matchVars>>
    \/ Completion /\ UNCHANGED <<tmVars, admissions, msgVars, svcVars, matchVars>>

\* what has become of the requests made with each key: the time of the last one
\* admitted, and whether two were admitted and one rejected
Observe ==
    LET k == lastEvent'.key
        old == IF k \in DOMAIN admissions THEN admissions[k]
               ELSE [at |-> now, again |-> FALSE, rejected |-> FALSE]
        new == IF lastEvent'.admitted
               THEN [old EXCEPT !.at = now, !.again = k \in DOMAIN admissions]
               ELSE [old EXCEPT !.rejected = TRUE]
    IN  admissions' = [j \in (DOMAIN admissions) \cup {k} |->
                          IF j = k THEN new ELSE admissions[j]]

\* requests to create tasks as time passes
NextDedup ==
    \/ NewTask /\ Observe /\ UNCHANGED <<tmVars, msgVars, svcVars, matchVars>>
    \/ \E d \in TickSteps : Tick(d) /\ UNCHANGED <<tmVars, msgVars, svcVars, matchVars>>

-----------------------------------------------------------------------------
(* handle_message_event: the guard against handling a message twice, with the
   handler taken up to its first await (Receive) and from there to its return
   (Finish), so that a second handler may run in between *)

MAX_CACHE_SIZE == 1000

\* message ids that are delivered more than once
MsgIds == {"om_1", "om_2"}

\* the id of a message that is delivered this once only
FreshId == "om_fresh"

\* the text of the messages with the ids of MsgIds, and of the others
GuardContent == "@bot 新任务 A"
OtherContent == "#report"

\* processed_messages holds the ids of MsgIds it contains, and the number of
\* other ids in it: no later event carries one of those again
Size(seen) == seen.others + Cardinality(seen.ids)

\* message_id in processed_messages
Seen(seen, message_id) == message_id \in seen.ids

\* the id is counted but not remembered
AddUnremembered(seen, message_id) == [seen EXCEPT !.others = @ + 1]

\* processed_messages.add(message_id)
Add(seen, message_id) ==
    IF message_id \in MsgIds
    THEN [seen EXCEPT !.ids = @ \cup {message_id}]
    ELSE [seen EXCEPT !.others = @ + 1]

\* processed_messages -= set(list(processed_messages)[:MAX_CACHE_SIZE // 2]): a set
\* has no order of insertion, so the half removed is any MAX_CACHE_SIZE // 2 of
\* its elements
Cleaned(seen) ==
    LET half == MAX_CACHE_SIZE \div 2
    IN  {[others |-> seen.others - (half - Cardinality(R)), ids |-> seen.ids \ R] :
            R \in {Q \in SUBSET seen.ids : half - Cardinality(Q) <= seen.others}}

\* the message is marked as processed and the set is never cleaned
MarkedUncleaned(seen, message_id) == {Add(seen, message_id)}

\* the message is marked as processed, and the set cleaned if it has grown past
\* MAX_CACHE_SIZE: the sets that can result
Marked(seen, message_id) ==
    LET added == Add(seen, message_id)
    IN  IF Size(added) > MAX_CACHE_SIZE THEN Cleaned(added) ELSE {added}

\* handler h takes the event of a message and runs to its first await: the check
\* of the message id and, for a request to create a task, the window check
Receive(h, message_id, content) ==
    /\ inflight[h].pc = "idle"
    /\ IF Seen(processed_messages, message_id)
       THEN /\ inflight' = [inflight EXCEPT ![h] =
                               [pc |-> "busy", id |-> message_id,
                                outcome |-> "duplicate", cleaned |-> FALSE]]
            /\ UNCHANGED <<processed_messages, task_creation_cache>>
       ELSE \E marked \in Marked(processed_messages, message_id) :
               LET task_key == TaskKey(MainChat, content)
                   isRequest == content = GuardContent
                   blocked == isRequest /\ Blocked(task_creation_cache, task_key, now)
               IN  /\ processed_messages' = marked
                   /\ task_creation_cache' =
                          IF isRequest /\ ~blocked
                          THEN Recorded(task_creation_cache, task_key, now)
                          ELSE task_creation_cache
                   /\ inflight' = [inflight EXCEPT ![h] =
                          [pc |-> "busy", id |-> message_id,
                           outcome |-> IF ~isRequest THEN "handled"
                                       ELSE IF blocked THEN "blocked" ELSE "admitted",
                           cleaned |-> Size(Add(processed_messages, message_id))
                                           > MAX_CACHE_SIZE]]
    /\ UNCHANGED <<tmVars, records, chats, now, lastEvent, admissions, matchVars, svcVars>>

\* handler h runs from its first await to its return: an admitted request to
\* create a task creates it, unless a message to the chat could not be sent
Finish(h, sendOk) ==
    /\ inflight[h].pc = "busy"
    /\ inflight' = [inflight EXCEPT ![h] = NoMessage]
    /\ records' = IF inflight[h].outcome = "admitted" /\ sendOk
                  THEN Append(records, DraftFields) ELSE records
    /\ UNCHANGED <<tmVars, processed_messages, chats, task_creation_cache, now,
                   lastEvent, admissions, matchVars, svcVars>>

\* a message delivered again, with the text of a request to create a task
Redelivered == \E h \in Handlers, m \in MsgIds : Receive(h, m, GuardContent)
\* a message never seen before
Fresh == \E h \in Handlers : Receive(h, FreshId, OtherContent)
Finished == \E h \in Handlers, sendOk \in BOOLEAN : Finish(h, sendOk)

NextGuard == Redelivered \/ Fresh \/ Finished

-----------------------------------------------------------------------------
(* MatchingService.find_top_candidates *)

\* user ids of the candidates, numbered in ascending order of the ids
CandidateIds == 1..NCands

\* int(match_score.total_score) of a candidate for the task at hand
MatchScores == {50, 70}

\* the candidates with their scores for the task
Scored == [user_id : CandidateIds, match_score : MatchScores]

\* c put into a list sorted by descending score, behind the entries with a score
\* that is not smaller
InsertByScore(sorted, c) ==
    LET k == Cardinality({i \in 1..Len(sorted) : sorted[i].match_score >= c.match_score})
    IN  SubSeq(sorted, 1, k) \o <<c>> \o SubSeq(sorted, k + 1, Len(sorted))

\* scored_candidates.sort(key=lambda x: x["match_score"], reverse=True): the sort is
\* stable, so entries with equal scores keep the order they have in the list
RECURSIVE SortedByScore(_)
SortedByScore(scored_candidates) ==
    IF scored_candidates = <<>> THEN <<>>
    ELSE InsertByScore(
             SortedByScore(SubSeq(scored_candidates, 1, Len(scored_candidates) - 1)),
             scored_candidates[Len(scored_candidates)])

\* scored_candidates[:3]
Top3(seq) == SubSeq(seq, 1, IF Len(seq) < 3 THEN Len(seq) ELSE 3)

_cache_ttl == 300

\* the cache is used with the entry as old as _cache_ttl still taken as valid
CacheValidInclusive(cache, timestamp, current_time) ==
    cache # NoCache /\ current_time - timestamp <= _cache_ttl

\* get_cached_candidates: the cache is filled and younger than _cache_ttl
CacheValid(cache, timestamp, current_time) ==
    cache # NoCache /\ current_time - timestamp < _cache_ttl

\* what the provider does when it is asked to rank: it answers with matches or
\* with none, does not answer in time, or fails
ProviderOutcomes == {"matches", "empty", "timeout", "error"}

\* the matches of the provider when it answers with matches
LlmMatches == <<[user_id |-> 1, match_score |-> 95]>>

\* a branch for use_llm that returns what the provider had sent when it timed out
LlmBranchPartial(use_llm, provider) ==
    [provider_calls |-> IF use_llm THEN 1 ELSE 0,
     returned |-> use_llm /\ provider \in {"matches", "timeout"},
     matches |-> LlmMatches]

\* the branch of find_top_candidates for use_llm: matching by the provider is
\* disabled, the provider is not called and the branch returns nothing
LlmBranch(use_llm, provider) ==
    [provider_calls |-> 0, returned |-> FALSE, matches |-> <<>>]

\* an exception leaves find_top_candidates
Propagated(outcome) == outcome

\* except Exception in find_top_candidates: the empty list is returned
Absorbed(outcome) ==
    IF outcome.raised THEN [outcome EXCEPT !.raised = FALSE, !.result = <<>>]
    ELSE outcome

\* find_top_candidates. readOk: the person table can be read; use_llm: ranking by
\* the provider is asked for; provider: what the provider would do
FindTopCandidates(readOk, use_llm, provider) ==
    LET valid == CacheValid(_candidates_cache, _cache_timestamp, now)
        read == valid \/ readOk
        pool == IF valid THEN _candidates_cache.pool ELSE candidates
        llm == LlmBranch(use_llm, provider)
        called == [NotRanked EXCEPT !.called = TRUE, !.read = read,
                                    !.use_llm = use_llm, !.provider = provider,
                                    !.fetched = ~valid]
        outcome ==
            IF ~read THEN [called EXCEPT !.raised = TRUE]
            ELSE IF pool = <<>> THEN [called EXCEPT !.pool = pool]
            ELSE IF llm.returned
                 THEN [called EXCEPT !.pool = pool, !.result = llm.matches,
                                     !.provider_calls = llm.provider_calls]
                 ELSE [called EXCEPT !.pool = pool,
                                     !.result = Top3(SortedByScore(pool)),
                                     !.provider_calls = llm.provider_calls]
    IN  /\ top_candidates' = Absorbed(outcome)
        /\ IF ~valid /\ readOk
           THEN /\ _candidates_cache' = [pool |-> candidates]
                /\ _cache_timestamp' = now
                /\ fetched_at' = now
           ELSE UNCHANGED <<_candidates_cache, _cache_timestamp, fetched_at>>
        /\ UNCHANGED <<tmVars, records, chats, task_creation_cache, now, lastEvent,
                       admissions, msgVars, svcVars, candidates, scored, match_scores>>

\* a person joins the person table: the table lists each person once, a new one
\* last. The result of an earlier call has been used by then
AddCandidate(c) ==
    /\ Len(candidates) < NCands
    /\ \A i \in 1..Len(candidates) : candidates[i].user_id # c.user_id
    /\ candidates' = Append(candidates, c)
    /\ top_candidates' = NotRanked
    /\ UNCHANGED <<tmVars, records, chats, task_creation_cache, now, lastEvent,
                   admissions, msgVars, svcVars, _candidates_cache, _cache_timestamp,
                   fetched_at, scored, match_scores>>

\* a person leaves the person table
RemoveCandidate(i) ==
    /\ i \in 1..Len(candidates)
    /\ candidates' = SubSeq(candidates, 1, i - 1) \o
                     SubSeq(candidates, i + 1, Len(candidates))
    /\ top_candidates' = NotRanked
    /\ UNCHANGED <<tmVars, records, chats, task_creation_cache, now, lastEvent,
                   admissions, msgVars, svcVars, _candidates_cache, _cache_timestamp,
                   fetched_at, scored, match_scores>>

Ranked == \E readOk, use_llm \in BOOLEAN, provider \in ProviderOutcomes :
             FindTopCandidates(readOk, use_llm, provider)

\* the person table is filled, then ranking calls are made, the clock standing still
NextMatch ==
    \/ Ranked
    \/ _candidates_cache = NoCache /\ \E c \in Scored : AddCandidate(c)
    \/ _candidates_cache = NoCache /\ \E i \in 1..NCands : RemoveCandidate(i)

\* the persons that join and leave the table while the matcher is in use
CachePersons == {c \in Scored : c.user_id <= 2 /\ c.match_score = 50}

\* ranking calls as time passes and the person table changes
NextCache ==
    \/ Ranked
    \/ \E c \in CachePersons : AddCandidate(c)
    \/ RemoveCandidate(1)
    \/ \E d \in TickSteps : Tick(d) /\ UNCHANGED <<tmVars, msgVars, svcVars, matchVars>>

TaskManagerInit ==
    /\ store = [t \in Tasks |-> NoRow]
    /\ lastOp = NoOp
    /\ evalFails = [t \in Tasks |-> 0]
    /\ calls = [h \in Handlers |-> Idle]

Init == TaskManagerInit /\ BotInit

-----------------------------------------------------------------------------
(* MatchingService.calculate_match_score.  Scores are whole numbers here: the
   lists of required skills have at most two entries, so a skill score is a
   multiple of 25.  total_score is kept in hundredths.  The reasons, Chinese
   sentences in the source, are named in English. *)

\* str.lower() of the skill and complexity names used here
Lower(name) ==
    CASE name = "Python" -> "python"
      [] name = "FastAPI" -> "fastapi"
      [] name = "Java" -> "java"
      [] name = "JavaScript" -> "javascript"
      [] name = "High" -> "high"
      [] OTHER -> name

\* a in b, for the lowered skill names
Within(a, b) == a = b \/ (a = "java" /\ b = "javascript")

\* the list with every entry lowered
Lowered(skills) == [i \in DOMAIN skills |-> Lower(skills[i])]

\* set(list)
SetOf(list) == {list[i] : i \in DOMAIN list}

\* min(100.0, score) left out
Uncapped(score) == score

\* min(100.0, score)
Capped(score) == IF score > 100 THEN 100 ELSE score

\* calculate_skill_match
calculate_skill_match(required_skills, candidate_skills) ==
    IF required_skills = <<>>
    THEN [score |-> 100, reasons |-> <<"no skills required">>]
    ELSE IF candidate_skills = <<>>
    THEN [score |-> 0, reasons |-> <<"candidate lists no skills">>]
    ELSE
    LET required_lower == Lowered(required_skills)
        candidate_lower == Lowered(candidate_skills)
        exact_matches == SetOf(required_lower) \cap SetOf(candidate_lower)
        exact_score == (Cardinality(exact_matches) * 100) \div Len(required_lower)
        partial_matches ==
            {req_skill \in SetOf(required_lower) :
                \E cand_skill \in SetOf(candidate_lower) :
                    Within(req_skill, cand_skill) \/ Within(cand_skill, req_skill)}
        partial_score == (Cardinality(partial_matches) * 50) \div Len(required_lower)
        skill_score == Capped(exact_score + partial_score)
    IN  [score |-> skill_score,
         reasons |-> (IF exact_matches # {} THEN <<"exact matches">> ELSE <<>>)
                     \o (IF partial_matches \ exact_matches # {}
                         THEN <<"partial matches">> ELSE <<>>)
                     \o (IF skill_score < 50 THEN <<"missing skills">> ELSE <<>>)]

\* calculate_availability_score
calculate_availability_score(hours_available, task_complexity) ==
    LET complexity == Lower(task_complexity)
        required_hours == CASE complexity = "low" -> 5
                            [] complexity = "medium" -> 15
                            [] complexity = "high" -> 30
                            [] OTHER -> 15
    IN  IF 2 * hours_available >= 3 * required_hours
        THEN [score |-> 100, reasons |-> <<"hours ample">>]
        ELSE IF hours_available >= required_hours
        THEN [score |-> 80, reasons |-> <<"hours enough">>]
        ELSE IF 10 * hours_available >= 7 * required_hours
        THEN [score |-> 60, reasons |-> <<"hours tight">>]
        ELSE [score |-> 30, reasons |-> <<"hours short">>]

\* calculate_performance_score
calculate_performance_score(performance) ==
    IF performance >= 90 THEN [score |-> 100, reasons |-> <<"performance >= 90">>]
    ELSE IF performance >= 80 THEN [score |-> 85, reasons |-> <<"performance 80-89">>]
    ELSE IF performance >= 70 THEN [score |-> 70, reasons |-> <<"performance 70-79">>]
    ELSE IF performance >= 60 THEN [score |-> 55, reasons |-> <<"performance 60-69">>]
    ELSE [score |-> 30, reasons |-> <<"performance < 60">>]

\* last_done_at of a candidate: the field is absent, holds "无", holds a text that
\* is no date, or holds a time in milliseconds
LastDone(kind, ms) == [kind |-> kind, ms |-> ms]

Day == 86400

\* calculate_recency_score at the time current_time, in seconds
calculate_recency_score(last_done_at, current_time) ==
    IF last_done_at.kind \in {"absent", "无"} \/ (last_done_at.kind = "ms" /\ last_done_at.ms = 0)
    THEN [score |-> 50, reasons |-> <<"no history">>]
    ELSE IF last_done_at.kind # "ms"
    THEN [score |-> 50, reasons |-> <<"time not parsed">>]
    ELSE
    LET last_done == last_done_at.ms \div 1000
        days_since == (current_time - last_done) \div Day
    IN  IF days_since <= 7 THEN [score |-> 100, reasons |-> <<"active <= 7 days">>]
        ELSE IF days_since <= 30 THEN [score |-> 80, reasons |-> <<"active <= 30 days">>]
        ELSE IF days_since <= 90 THEN [score |-> 60, reasons |-> <<"active <= 90 days">>]
        ELSE [score |-> 40, reasons |-> <<"inactive">>]

\* the performance calculate_match_score reads from the candidate: the field
\* 历史评分 if the candidate has it, and 70.0 if it has not, whatever its field
\* performance holds; only a 历史评分 of 0 lets the other field, or 70.0, be used
PerformanceOf(candidate) ==
    IF candidate.names = "zh"
    THEN IF candidate.performance # 0 THEN candidate.performance ELSE 70
    ELSE 70

\* calculate_match_score at the time current_time
calculate_match_score(task_info, candidate, current_time) ==
    LET skill == calculate_skill_match(task_info.skill_tags, candidate.skill_tags)
        availability == calculate_availability_score(candidate.hours_available,
                                                     task_info.complexity)
        performance == calculate_performance_score(PerformanceOf(candidate))
        recency == calculate_recency_score(candidate.last_done_at, current_time)
    IN  [skill_score |-> skill.score,
         availability_score |-> availability.score,
         performance_score |-> performance.score,
         recency_score |-> recency.score,
         total_score |-> skill.score * 40 + availability.score * 25
                         + performance.score * 20 + recency.score * 15,
         reasons |-> skill.reasons \o availability.reasons \o performance.reasons
                     \o recency.reasons]

\* int(match_score.total_score)
IntTotal(match_score) == match_score.total_score \div 100

\* the tasks scored: the skills required, and the complexity ("medium" when the
\* task names none)
TaskInfos ==
    [skill_tags : {<<>>, <<"Python">>, <<"Python", "FastAPI">>, <<"Java">>,
                   <<"Python", "python">>},
     complexity : {"medium", "low", "High"}]

\* the candidates scored. names: the candidate's fields carry the Chinese names
\* of the person table (技能标签, 工作负载, 历史评分) or the English ones
Candidates ==
    [names : {"zh", "en"},
     skill_tags : {<<>>, <<"Python", "FastAPI">>, <<"python">>, <<"JavaScript">>},
     hours_available : {0, 11, 15, 40},
     performance : {0, 59, 69, 85, 90},
     last_done_at : {LastDone("absent", 0), LastDone("无", 0), LastDone("text", 0),
                     LastDone("ms", 0), LastDone("ms", -3 * Day * 1000),
                     LastDone("ms", -20 * Day * 1000)}]

\* seconds the clock may advance between two evaluations
ScoreSteps == {30 * Day}

InitScore ==
    /\ TaskManagerInit
    /\ records = <<MockTask>>
    /\ chats = 0
    /\ task_creation_cache = <<>>
    /\ now = 0
    /\ lastEvent = NoEvent
    /\ admissions = <<>>
    /\ processed_messages = [others |-> 0, ids |-> {}]
    /\ inflight = [h \in Handlers |-> NoMessage]
    /\ candidates = <<>>
    /\ top_candidates = NotRanked
    /\ _candidates_cache = NoCache
    /\ _cache_timestamp = 0
    /\ fetched_at = Never
    /\ scored \in [task_info : TaskInfos, candidate : Candidates]
    /\ match_scores = <<>>
    /\ ServicesInit

\* calculate_match_score is called for the task and the candidate
Evaluate ==
    /\ Len(match_scores) < 2
    /\ match_scores' =
           Append(match_scores,
                  [at |-> now,
                   score |-> calculate_match_score(scored.task_info, scored.candidate, now)])
    /\ UNCHANGED <<tmVars, records, chats, task_creation_cache, now, lastEvent,
                   admissions, msgVars, svcVars, candidates, top_candidates, _candidates_cache,
                   _cache_timestamp, fetched_at, scored>>

NextScore ==
    \/ Evaluate
    \/ \E d \in ScoreSteps : Tick(d) /\ UNCHANGED <<tmVars, msgVars, svcVars, matchVars>>

\* one call of a TaskManager operation, run from entry to return
Create == \E t \in Tasks, u \in Users, task_data \in TaskDatas, up \in BOOLEAN :
             CreateTask(t, u, task_data, up)
Assign == \E t \in Tasks, c \in Users, up, sendOk \in BOOLEAN :
             AssignTaskToCandidate(t, c, up, sendOk)
Accept == \E t \in Tasks, u \in Users, up1 \in BOOLEAN : AcceptTask(t, u, up1)
Submit == \E t \in Tasks, u \in Users, up1 \in BOOLEAN : SubmitTask(t, u, up1)
Complete == \E t \in Tasks, rd \in ReviewDatas, up1 \in BOOLEAN : CompleteTask(t, rd, up1)
Reject == \E t \in Tasks, rd \in ReviewDatas, up1 \in BOOLEAN : RejectTask(t, rd, up1)

Next ==
    \/ Create /\ UNCHANGED <<evalFails, calls, botVars>>
    \/ Assign /\ UNCHANGED <<evalFails, calls, botVars>>
    \/ Accept /\ UNCHANGED <<evalFails, calls, botVars>>
    \/ Submit /\ UNCHANGED <<evalFails, calls, botVars>>
    \/ Complete /\ UNCHANGED <<evalFails, calls, botVars>>
    \/ Reject /\ UNCHANGED <<evalFails, calls, botVars>>

Spec == Init /\ [][Next]_vars

-----------------------------------------------------------------------------
(* Task ids: TaskManager.create_task and BitableClient.get_task / update_task over
   a table whose rows carry the task id next to the record id *)

\* f"TASK{datetime.now().strftime('%Y%m%d%H%M%S')}": the clock cut to the second
TaskIdAt(current_time) == <<"TASK", current_time>>

\* TaskManager.create_task at the current time; the table gives the row a record
\* id of its own.  up: the request to the table succeeds
CreateWithTaskId(up) ==
    /\ Len(task_table) <= MaxRecords
    /\ task_table' =
           IF up
           THEN Append(task_table, [record_id |-> Len(task_table) + 1,
                                    taskid |-> TaskIdAt(now), status |-> PENDING])
           ELSE task_table
    /\ addressed' = NotAddressed
    /\ UNCHANGED <<tmVars, records, chats, task_creation_cache, now, lastEvent,
                   admissions, msgVars, matchVars, backends, default_backend, matched,
                   commanded, monVars>>

\* the rows of the table that match task_identifier by their task id (BitableClient.get_task also matches record ids, which are no
\* task ids)
Matching(table, task_identifier) ==
    {i \in 1..Len(table) : table[i].taskid = task_identifier}

\* BitableClient.get_task: the index of the first row that matches; 0 for None
FirstMatch(table, task_identifier) ==
    IF Matching(table, task_identifier) = {} THEN 0
    ELSE CHOOSE i \in Matching(table, task_identifier) :
             \A j \in Matching(table, task_identifier) : i <= j

\* BitableClient.update_task(task_id, {'status': status}) for the task of row k,
\* addressed by its task id
UpdateByTaskId(k, status, up) ==
    LET task_id == task_table[k].taskid
        found == IF up THEN FirstMatch(task_table, task_id) ELSE 0
    IN  /\ k \in 1..Len(task_table)
        /\ task_table' = IF found = 0 THEN task_table
                         ELSE [task_table EXCEPT ![found].status = status]
        /\ addressed' = [called |-> TRUE, task_id |-> task_id, meant |-> k,
                         found |-> found, ok |-> found # 0]
        /\ UNCHANGED <<tmVars, records, chats, task_creation_cache, now, lastEvent,
                       admissions, msgVars, matchVars, backends, default_backend,
                       matched, commanded, monVars>>

CreatedWithId == \E up \in BOOLEAN : CreateWithTaskId(up)
UpdatedById == \E k \in 1..(MaxRecords + 1), status \in {ASSIGNED, CANCELLED},
                  up \in BOOLEAN : UpdateByTaskId(k, status, up)

NextIds ==
    \/ CreatedWithId
    \/ UpdatedById
    \/ \E d \in TickSteps : Tick(d) /\ UNCHANGED <<tmVars, msgVars, svcVars, matchVars>>

SpecIds == Init /\ [][NextIds]_vars

-----------------------------------------------------------------------------
(* The new-task command of app/webhooks.py: handle_new_task_command *)

\* what BitableClient.create_task_in_table does: it returns the record id of the
\* row it stored, returns None, or raises
SaveOutcomes == {"saved", "none", "raises"}

\* _send_candidate_selection_card is called with the task id
CardSent(save_success, inChat, top_candidates_found) ==
    inChat /\ top_candidates_found

\* handle_new_task_command past the parsing of the provider's answer.  inChat: the
\* command came with a chat_id; top_candidates_found: the answer names candidates
HandleNewTaskCommand(save, inChat, top_candidates_found) ==
    LET task_id == TaskIdAt(now)
        save_success == save = "saved"
    IN  /\ Len(task_table) <= MaxRecords
        /\ task_table' =
               IF save_success
               THEN Append(task_table, [record_id |-> Len(task_table) + 1,
                                        taskid |-> task_id, status |-> PENDING])
               ELSE task_table
        /\ commanded' = [called |-> TRUE, task_id |-> task_id,
                         save_success |-> save_success,
                         card |-> CardSent(save_success, inChat, top_candidates_found)]
        /\ UNCHANGED <<tmVars, records, chats, task_creation_cache, now, lastEvent,
                       admissions, msgVars, matchVars, backends, default_backend,
                       matched, addressed, monVars>>

NewTaskCommand == \E save \in SaveOutcomes, inChat, found \in BOOLEAN :
                      HandleNewTaskCommand(save, inChat, found)

NextCommand ==
    \/ NewTaskCommand
    \/ \E d \in TickSteps : Tick(d) /\ UNCHANGED <<tmVars, msgVars, svcVars, matchVars>>

SpecCommand == Init /\ [][NextCommand]_vars

-----------------------------------------------------------------------------
(* TaskMonitor and the /monitor command.  A run of start_monitoring is suspended
   in asyncio.sleep between two checks; check_all_tasks runs without yielding:
   the table is read by a synchronous request and the reminders are sent through
   FeishuService, whose requests are synchronous too. *)

\* seconds the clock may advance between two steps of the monitor
MonitorSteps == {Day \div 2}

\* create_time and deadline of the monitored tasks, in seconds
CreateTime(task_id) == 0
Deadline(task_id) == IF task_id = "TASK_A" THEN 2 * Day ELSE 4 * Day

\* the reminder is sent and not remembered
Forgotten(reminded, key) == reminded

\* self.reminded_tasks.add(key)
Remembered(reminded, key) == reminded \cup {key}

\* the keys of reminded_tasks: the task id for the half-way reminder and
\* f"{task_id}_final" for the final one
HalfKey(task_id) == <<task_id>>
FinalKey(task_id) == <<task_id, "final">>

\* TaskMonitor.check_task_deadline: [reminded, sent]; sent lists the reminders the
\* check has sent
check_task_deadline(task_id, reminded, current_time) ==
    LET total_duration == Deadline(task_id) - CreateTime(task_id)
        elapsed_duration == current_time - CreateTime(task_id)
        time_remaining == Deadline(task_id) - current_time
    IN  IF total_duration <= 0 THEN [reminded |-> reminded, sent |-> <<>>]
        ELSE IF /\ 2 * elapsed_duration >= total_duration
                /\ HalfKey(task_id) \notin reminded
        THEN [reminded |-> Remembered(reminded, HalfKey(task_id)),
              sent |-> <<"half">>]
        ELSE IF /\ time_remaining <= Day
                /\ time_remaining > 0
                /\ FinalKey(task_id) \notin reminded
        THEN [reminded |-> Remembered(reminded, FinalKey(task_id)),
              sent |-> <<"final">>]
        ELSE [reminded |-> reminded, sent |-> <<>>]

Counted(n) == IF n < 2 THEN n + 1 ELSE n

\* the count of the reminders of a task after a check that has sent the ones in sent
CountedIn(count, sent) ==
    [half |-> IF \E j \in 1..Len(sent) : sent[j] = "half"
              THEN Counted(count.half) ELSE count.half,
     final |-> IF \E j \in 1..Len(sent) : sent[j] = "final"
               THEN Counted(count.final) ELSE count.final]

\* TaskMonitor.check_all_tasks from the i-th task on: [reminded, reminders, checked]
RECURSIVE CheckFrom(_, _, _, _)
CheckFrom(i, reminded, counts, last) ==
    IF i > Len(MonitoredTasks)
    THEN [reminded |-> reminded, reminders |-> counts, checked |-> last]
    ELSE LET t == MonitoredTasks[i]
             r == check_task_deadline(t, reminded, now)
         IN  CheckFrom(i + 1, r.reminded,
                       [counts EXCEPT ![t] = CountedIn(@, r.sent)],
                       [last EXCEPT ![t] = r.sent])

\* TaskMonitor.check_all_tasks
CheckAllTasks ==
    LET r == CheckFrom(1, reminded_tasks, reminders, checked)
    IN  /\ reminded_tasks' = r.reminded
        /\ reminders' = r.reminders
        /\ checked' = r.checked

\* handle_monitor_command, "/monitor start": a run of start_monitoring is created
\* unless the monitor says that it is running
MonitorStart ==
    /\ Len(loops) < MaxLoops
    /\ ~monitoring
    /\ loops' = Append(loops, [pc |-> "created", stopped |-> FALSE, resumed |-> FALSE])
    /\ UNCHANGED <<monitoring, reminded_tasks, reminders, checked>>

\* handle_monitor_command, "/monitor stop": stop_monitoring.  A run that sleeps
\* while the monitor is running is marked as stopped
MonitorStop ==
    /\ monitoring' = FALSE
    /\ loops' = [i \in 1..Len(loops) |->
                    IF loops[i].pc = "sleeping" /\ monitoring
                    THEN [loops[i] EXCEPT !.stopped = TRUE] ELSE loops[i]]
    /\ UNCHANGED <<reminded_tasks, reminders, checked>>

\* start_monitoring from its start to its first sleep
LoopStart(i) ==
    /\ i \in 1..Len(loops)
    /\ loops[i].pc = "created"
    /\ IF monitoring
       THEN /\ loops' = [loops EXCEPT ![i].pc = "ended"]
            /\ UNCHANGED <<monitoring, reminded_tasks, reminders, checked>>
       ELSE /\ monitoring' = TRUE
            /\ loops' = [loops EXCEPT ![i].pc = "sleeping"]
            /\ CheckAllTasks

\* start_monitoring from a wake-up to the next sleep, or to its end; resumed
\* records that a run that was stopped has gone on
LoopWake(i) ==
    /\ i \in 1..Len(loops)
    /\ loops[i].pc = "sleeping"
    /\ IF monitoring
       THEN /\ CheckAllTasks
            /\ loops' = [loops EXCEPT ![i].resumed = loops[i].stopped]
            /\ UNCHANGED monitoring
       ELSE /\ loops' = [loops EXCEPT ![i].pc = "ended"]
            /\ UNCHANGED <<monitoring, reminded_tasks, reminders, checked>>

\* what the monitor leaves alone
MonitorFrame ==
    UNCHANGED <<tmVars, records, chats, task_creation_cache, now, lastEvent, admissions,
                msgVars, matchVars, backends, default_backend, matched, task_table,
                addressed, commanded>>

NextMonitor ==
    \/ MonitorStart /\ MonitorFrame
    \/ MonitorStop /\ MonitorFrame
    \/ \E i \in 1..MaxLoops : LoopStart(i) /\ MonitorFrame
    \/ \E i \in 1..MaxLoops : LoopWake(i) /\ MonitorFrame
    \/ \E d \in MonitorSteps : Tick(d) /\ UNCHANGED <<tmVars, msgVars, svcVars, matchVars>>

SpecMonitor == Init /\ [][NextMonitor]_vars

-----------------------------------------------------------------------------
(* The /done command (app/webhooks.py) over TaskManager *)

\* TaskManager.get_user_tasks: the list it returns for every user
get_user_tasks(user_id) == <<>>

\* the threshold of _handle_non_code_task_review
ReviewPassScore == 80

\* _handle_non_code_task_review: the store after the verdict of the evaluation out
\* has been applied through complete_task or reject_task; an evaluation that raises
\* applies none
ReviewEffect(st, t, out, up5, up6, sendOk) ==
    LET task == GetTask(st, t, up5)
    IN  IF out.raises \/ task = NotFound
        THEN [store |-> st, wrote |-> <<>>, sent |-> <<>>]
        ELSE IF out.score >= ReviewPassScore
             THEN CompleteEffect(st, t, task, out.score, up6, sendOk)
             ELSE RejectEffect(st, t, task, out.score, up6, sendOk)

\* handle_done_command: the command is answered with an error when it carries no
\* link or the user has no active task; otherwise the first active task is
\* submitted, whatever submit_task returns, and then reviewed
HandleDoneCommand(u, hasUrl) ==
    LET user_tasks == get_user_tasks(u)
        active_tasks == SelectSeq(user_tasks,
                                  LAMBDA task : task["status"] \in {ASSIGNED, IN_PROGRESS})
    IN  IF ~hasUrl \/ active_tasks = <<>>
        THEN /\ lastOp' = [Done("handle_done_command", None, u, NoScore, <<>>,
                                <<Msg(u, IF hasUrl THEN "no active task"
                                         ELSE "no link")>>, FALSE)
                           EXCEPT !.arg = IF hasUrl THEN Url ELSE None]
             /\ UNCHANGED store
        ELSE \E up1, up2, up3, up4, up5, up6, sendOk \in BOOLEAN,
                out1, out2 \in EvalOutcomes :
                LET t == active_tasks[1]["record_id"]
                    task == GetTask(store, t, up1)
                    submitted == IF SubmitAllowed(task, u)
                                 THEN SubmitEffect(store, t, task, out1, up2, up3, up4,
                                                   sendOk)
                                 ELSE [store |-> store, wrote |-> <<>>, sent |-> <<>>,
                                       atEval |-> None, verdict |-> None]
                    reviewed == ReviewEffect(submitted.store, t, out2, up5, up6, sendOk)
                IN  /\ store' = reviewed.store
                    /\ lastOp' = [Done("handle_done_command", t, u, out2.score,
                                       submitted.wrote \o reviewed.wrote,
                                       submitted.sent \o reviewed.sent, TRUE)
                                  EXCEPT !.arg = Url]

DoneCommand == \E u \in Users, hasUrl \in BOOLEAN : HandleDoneCommand(u, hasUrl)

\* the TaskManager operations and the /done command
NextDone ==
    \/ Next
    \/ DoneCommand /\ UNCHANGED <<evalFails, calls, botVars>>

SpecDone == Init /\ [][NextDone]_vars

-----------------------------------------------------------------------------
(* The operations with the failing evaluations of each task counted *)

Sat(n) == IF n <= max_retry_attempts THEN n + 1 ELSE n

\* the call just made applied a failing evaluation to its task
CountEval ==
    evalFails' =
        IF lastOp'.verdict = "failed" /\ lastOp'.result /\ lastOp'.writes # <<>>
        THEN [evalFails EXCEPT ![lastOp'.task] = Sat(@)]
        ELSE evalFails

NextEval ==
    \/ Create /\ CountEval /\ UNCHANGED <<calls, botVars>>
    \/ Assign /\ CountEval /\ UNCHANGED <<calls, botVars>>
    \/ Accept /\ CountEval /\ UNCHANGED <<calls, botVars>>
    \/ Submit /\ CountEval /\ UNCHANGED <<calls, botVars>>
    \/ Complete /\ CountEval /\ UNCHANGED <<calls, botVars>>
    \/ Reject /\ CountEval /\ UNCHANGED <<calls, botVars>>

SpecEval == Init /\ [][NextEval]_vars

-----------------------------------------------------------------------------
(* accept_task and submit_task with every await taken as a point where the other
   handler may run: a call reads the task (await get_task), and on a later turn
   checks what it read and writes (await update_task, and what follows it) *)

RaceTask == TaskNames[1]

\* rows a task can have reached through the operations above
ReachedRows == {[CreatedRow EXCEPT !["status"] = s] : s \in {PENDING, ASSIGNED, COMPLETED, REJECTED}}

InitRace ==
    /\ store \in {[t \in Tasks |-> IF t = RaceTask THEN row ELSE NoRow] : row \in ReachedRows}
    /\ lastOp = NoOp
    /\ evalFails = [t \in Tasks |-> 0]
    /\ calls = [h \in Handlers |-> Idle]
    /\ BotInit

\* the calls now between their read and their write, of the same operation
Overlapping(op, h) == {g \in Handlers \ {h} : calls[g].pc = "read" /\ calls[g].op = op}

\* handler h enters op for user u and reads the task
ReadTask(h, op, u, up1) ==
    /\ calls[h].pc = "idle"
    /\ calls' = [g \in Handlers |->
                   IF g = h
                   THEN [pc |-> "read", op |-> op, user |-> u,
                         task_data |-> GetTask(store, RaceTask, up1),
                         raced |-> Overlapping(op, h) # {}, result |-> FALSE]
                   ELSE IF g \in Overlapping(op, h)
                        THEN [calls[g] EXCEPT !.raced = TRUE]
                        ELSE calls[g]]
    /\ UNCHANGED <<store, lastOp, evalFails, botVars>>

Returned(h, result) == [calls EXCEPT ![h].pc = "done", ![h].result = result]

\* accept_task from the return of get_task to its own return
AcceptWrite(h, up2, sendOk) ==
    /\ calls[h].pc = "read"
    /\ calls[h].op = "accept_task"
    /\ LET c == calls[h]
           e == AcceptEffect(store, RaceTask, c.task_data, c.user, up2, sendOk)
       IN  IF AcceptAllowed(c.task_data, c.user)
           THEN store' = e.store /\ calls' = Returned(h, e.result)
           ELSE UNCHANGED store /\ calls' = Returned(h, FALSE)
    /\ UNCHANGED <<lastOp, evalFails, botVars>>

\* submit_task from the return of get_task to its own return
SubmitWrite(h, out, up2, up3, up4, sendOk) ==
    /\ calls[h].pc = "read"
    /\ calls[h].op = "submit_task"
    /\ LET c == calls[h]
           e == SubmitEffect(store, RaceTask, c.task_data, out, up2, up3, up4, sendOk)
       IN  IF SubmitAllowed(c.task_data, c.user)
           THEN store' = e.store /\ calls' = Returned(h, TRUE)
           ELSE UNCHANGED store /\ calls' = Returned(h, FALSE)
    /\ UNCHANGED <<lastOp, evalFails, botVars>>

\* the handler is free for its next request
Return(h) ==
    /\ calls[h].pc = "done"
    /\ calls' = [calls EXCEPT ![h] = Idle]
    /\ UNCHANGED <<store, lastOp, evalFails, botVars>>

NextRace ==
    \/ \E h \in Handlers, u \in Users, up1 \in BOOLEAN : ReadTask(h, "accept_task", u, up1)
    \/ \E h \in Handlers, u \in Users, up1 \in BOOLEAN : ReadTask(h, "submit_task", u, up1)
    \/ \E h \in Handlers, up2, sendOk \in BOOLEAN : AcceptWrite(h, up2, sendOk)
    \/ \E h \in Handlers, out \in EvalOutcomes, up2, up3, up4, sendOk \in BOOLEAN :
          SubmitWrite(h, out, up2, up3, up4, sendOk)
    \/ \E h \in Handlers : Return(h)

SpecRace == InitRace /\ [][NextRace]_vars

SpecBot == Init /\ [][NextBot]_vars

SpecDedup == Init /\ [][NextDedup]_vars

SpecGuard == Init /\ [][NextGuard]_vars

SpecMatch == Init /\ [][NextMatch]_vars

SpecCache == Init /\ [][NextCache]_vars

SpecScore == InitScore /\ [][NextScore]_vars

-----------------------------------------------------------------------------
(* LLMService: the backends and match_candidates *)

\* the backends in the order _initialize_backends enters them in self.backends
BackendNames == <<"deepseek", "gemini", "openai">>

BackendSet == {BackendNames[i] : i \in 1..Len(BackendNames)}

\* LLMService.__init__: a backend is initialised for each API key that is set
InitializeBackends(default, keys) ==
    /\ backends = NotInitialized
    /\ backends' = SelectSeq(BackendNames, LAMBDA b : b \in keys)
    /\ default_backend' = default
    /\ matched' = NotMatched
    /\ UNCHANGED <<tmVars, records, chats, task_creation_cache, now, lastEvent,
                   admissions, msgVars, matchVars, task_table, addressed, commanded,
                   monVars>>

\* LLMService.get_backend: the name of the backend returned; None when it raises
get_backend(backend_name) ==
    LET name == IF backend_name = None THEN default_backend ELSE backend_name
    IN  IF \E i \in 1..Len(backends) : backends[i] = name THEN name
        ELSE IF backends # <<>> THEN backends[1]
        ELSE None

\* the loop over the backup backends from the i-th available one on:
\* [invoked, responded]
RECURSIVE TryBackups(_, _, _)
TryBackups(i, skipped, failing) ==
    IF i > Len(backends) THEN [invoked |-> <<>>, responded |-> None]
    ELSE IF backends[i] = skipped THEN TryBackups(i + 1, skipped, failing)
    ELSE IF backends[i] \notin failing
         THEN [invoked |-> <<backends[i]>>, responded |-> backends[i]]
         ELSE LET rest == TryBackups(i + 1, skipped, failing)
              IN  [invoked |-> <<backends[i]>> \o rest.invoked,
                   responded |-> rest.responded]

\* LLMService.match_candidates. failing: the backends whose request fails during
\* this call.  responded is None when the call falls back to the rule-based scores
MatchCandidates(backend_name, failing) ==
    LET primary == get_backend(backend_name)
        first == IF primary = None THEN <<>> ELSE <<primary>>
        skipped == IF backend_name = None THEN default_backend ELSE backend_name
        backup == IF Len(backends) > 1 THEN TryBackups(1, skipped, failing)
                  ELSE [invoked |-> <<>>, responded |-> None]
        call == [NotMatched EXCEPT !.called = TRUE, !.backend_name = backend_name,
                                   !.failing = failing]
    IN  /\ backends # NotInitialized
        /\ matched' = IF primary # None /\ primary \notin failing
                      THEN [call EXCEPT !.invoked = first, !.responded = primary]
                      ELSE [call EXCEPT !.invoked = first \o backup.invoked,
                                        !.responded = backup.responded]
        /\ UNCHANGED <<tmVars, records, chats, task_creation_cache, now, lastEvent,
                       admissions, msgVars, matchVars, backends, default_backend,
                       task_table, addressed, commanded, monVars>>

Initialized == \E default \in BackendSet, keys \in SUBSET BackendSet :
                   InitializeBackends(default, keys)
Matched == \E backend_name \in BackendSet \cup {None}, failing \in SUBSET BackendSet :
               MatchCandidates(backend_name, failing)

NextLlm == Initialized \/ Matched

SpecLlm == Init /\ [][NextLlm]_vars

-----------------------------------------------------------------------------
(* handle_message_event for an event that carries no message id *)

\* seconds of one time bucket of the generated ids
BUCKET_SECONDS == 10

\* seconds the clock may advance between two events without an id
BucketSteps == {4}

\* the users who send messages without an id
Senders == {"ou_a", "ou_b"}

\* f"generated_{md5(f'{chat_id}_{sender_id}_{content}_{int(time.time()//10)}')}":
\* the digest stands for the four values it is taken of
GeneratedId(chat_id, sender_id, content, current_time) ==
    <<"generated", chat_id, sender_id, content, current_time \div BUCKET_SECONDS>>

\* processed_messages.add(message_id) for a generated id, which a later event
\* can produce again, and the clean-up past MAX_CACHE_SIZE: the sets that can result
MarkedGenerated(seen, message_id) ==
    LET added == [seen EXCEPT !.ids = @ \cup {message_id}]
    IN  IF Size(added) > MAX_CACHE_SIZE THEN Cleaned(added) ELSE {added}

\* message_id and message_id in processed_messages
SkippedAsProcessed(seen, message_id) == message_id # None /\ Seen(seen, message_id)

\* handler h takes the event of a message whose message_id is None and runs to its
\* first await: the check of the id it came with, then the generated id marked
\* as processed, then the handling of the text
ReceiveWithoutId(h, sender_id, content) ==
    LET message_id == None
        generated == GeneratedId(MainChat, sender_id, content, now)
        task_key == TaskKey(MainChat, content)
        isRequest == content = GuardContent
        blocked == isRequest /\ Blocked(task_creation_cache, task_key, now)
    IN  /\ inflight[h].pc = "idle"
        /\ IF SkippedAsProcessed(processed_messages, message_id)
           THEN /\ inflight' = [inflight EXCEPT ![h] =
                                   [pc |-> "busy", id |-> message_id, generated |-> generated,
                                    outcome |-> "duplicate", cleaned |-> FALSE]]
                /\ UNCHANGED <<processed_messages, task_creation_cache>>
           ELSE \E marked \in MarkedGenerated(processed_messages, generated) :
                   /\ processed_messages' = marked
                   /\ task_creation_cache' =
                          IF isRequest /\ ~blocked
                          THEN Recorded(task_creation_cache, task_key, now)
                          ELSE task_creation_cache
                   /\ inflight' = [inflight EXCEPT ![h] =
                          [pc |-> "busy", id |-> message_id, generated |-> generated,
                           outcome |-> IF ~isRequest THEN "handled"
                                       ELSE IF blocked THEN "blocked" ELSE "admitted",
                           cleaned |-> Cardinality(marked.ids) + marked.others
                                           < Size(processed_messages)]]
        /\ UNCHANGED <<tmVars, records, chats, now, lastEvent, admissions, matchVars, svcVars>>

WithoutId == \E h \in Handlers, sender_id \in Senders, content \in {GuardContent, OtherContent} :
                 ReceiveWithoutId(h, sender_id, content)

NextNoId ==
    \/ WithoutId
    \/ Finished
    \/ \E d \in BucketSteps : Tick(d) /\ UNCHANGED <<tmVars, msgVars, svcVars, matchVars>>

SpecNoId == Init /\ [][NextNoId]_vars

-----------------------------------------------------------------------------
(* The task state machine the operations are meant to follow *)

Terminal == {COMPLETED, REJECTED, CANCELLED}

Edges ==
    {<<PENDING, ASSIGNED>>, <<ASSIGNED, IN_PROGRESS>>, <<IN_PROGRESS, SUBMITTED>>,
     <<SUBMITTED, REVIEWING>>, <<REVIEWING, COMPLETED>>, <<REVIEWING, IN_PROGRESS>>,
     <<REVIEWING, REJECTED>>}
    \cup {<<s, CANCELLED>> : s \in TaskStatus \ Terminal}

\* every change of status along seq is an edge
Chain(seq) ==
    \A i \in 1..(Len(seq) - 1) : seq[i] # seq[i + 1] => <<seq[i], seq[i + 1]>> \in Edges

Exists(t) == store[t] # NoRow

\* the step is a call of op that found the store as the unprimed state has it
Called(op) == lastOp'.op = op /\ lastOp'.task \in Tasks

\* an evaluation that passed was applied by the last call: the store took the write
PassApplied ==
    /\ lastOp.verdict = "passed"
    /\ lastOp.result
    /\ lastOp.writes # <<>>
    /\ lastOp.writes[Len(lastOp.writes)] = COMPLETED

(* C1: every status change an operation makes to a task (create, assign, accept,
   submit, complete, reject) is an edge of PENDING -> ASSIGNED -> IN_PROGRESS ->
   SUBMITTED -> REVIEWING -> {COMPLETED, IN_PROGRESS, REJECTED}, or an edge to
   CANCELLED from a non-terminal status; a new task starts PENDING. *)
C1_StatusChangesAreEdges ==
    [][\A t \in Tasks :
          lastOp'.task = t =>
              IF Exists(t)
              THEN Chain(<<store[t]["status"]>> \o lastOp'.writes)
              ELSE lastOp'.writes \in {<<>>, <<PENDING>>}]_vars

(* C2: when two handlers run accept_task, or two run submit_task, on the same task
   at the same time, interleaved between the read of the task and the write, at
   most one of the two calls succeeds, and after an accept that succeeded alone the
   stored task is IN_PROGRESS for the user of that call. *)
C2_ConcurrentCallsAtMostOneSucceeds ==
    \A h1, h2 \in Handlers :
        /\ h1 # h2
        /\ calls[h1].pc = "done" /\ calls[h2].pc = "done"
        /\ calls[h1].raced /\ calls[h2].raced
        /\ calls[h1].op = calls[h2].op
        => /\ ~(calls[h1].result /\ calls[h2].result)
           /\ calls[h1].result /\ calls[h1].op = "accept_task" =>
                  /\ store[RaceTask]["status"] = IN_PROGRESS
                  /\ store[RaceTask]["assignee"] = calls[h1].user

\* two accept calls that both read the task ASSIGNED before either wrote have
\* both returned
C2_Witness ==
    \A h \in Handlers :
        /\ calls[h].pc = "done"
        /\ calls[h].op = "accept_task"
        /\ calls[h].raced
        /\ calls[h].task_data # NotFound
        /\ calls[h].task_data["status"] = ASSIGNED

(* C3: once a task is COMPLETED, REJECTED or CANCELLED, no later operation changes
   its status or any other field of it. *)
C3_TerminalTasksNeverChange ==
    [][\A t \in Tasks :
          Exists(t) /\ store[t]["status"] \in Terminal => store'[t] = store[t]]_vars

(* C4: an evaluation below the pass threshold moves the task back to IN_PROGRESS
   while fewer than max_retry_attempts earlier evaluations of it have failed, and
   to REJECTED once the retries are used up. *)
C4_LowScoreReturnsWhileRetriesRemain ==
    \A t \in Tasks :
        /\ lastOp.task = t
        /\ lastOp.verdict = "failed"
        /\ lastOp.result
        /\ lastOp.writes # <<>>
        /\ lastOp.score < min_pass_score
        => IF evalFails[t] <= max_retry_attempts
           THEN store[t]["status"] = IN_PROGRESS
           ELSE store[t]["status"] = REJECTED

(* C5: an evaluation at or above the pass threshold leaves the task COMPLETED with
   that score stored on the task record and its completion time set. *)
C5_PassingScoreIsPersisted ==
    PassApplied /\ lastOp.score >= min_pass_score =>
        /\ store[lastOp.task]["status"] = COMPLETED
        /\ store[lastOp.task]["final_score"] = lastOp.score
        /\ store[lastOp.task]["completed_at"] # None

(* C6: accept succeeds only on a task that is ASSIGNED, and when the accept follows
   the assignment only for the candidate it was assigned to; an accept that fails
   leaves every task as it was, so a task another user tries to accept stays
   ASSIGNED with its assignee unchanged. *)
C6_AcceptOnlyByAssignedCandidate ==
    [][Called("accept_task") =>
          LET t == lastOp'.task
              u == lastOp'.user
              assignedNow == /\ lastOp.op = "assign_task_to_candidate"
                             /\ lastOp.task = t
                             /\ lastOp.writes # <<>>
          IN  /\ lastOp'.result => Exists(t) /\ store[t]["status"] = ASSIGNED
              /\ lastOp'.result /\ assignedNow => u = lastOp.user
              /\ assignedNow /\ u # lastOp.user => ~lastOp'.result
              /\ ~lastOp'.result => store' = store]_vars

\* an accept by a user other than the candidate just assigned has failed and the
\* task is still ASSIGNED
C6_Witness ==
    /\ lastOp.op = "accept_task"
    /\ ~lastOp.result
    /\ Exists(lastOp.task)
    /\ store[lastOp.task]["status"] = ASSIGNED
    /\ store[lastOp.task]["assignee"] = None

(* C7: a submission is accepted only when the task is IN_PROGRESS and comes from
   its assignee; an accepted submission takes the task through SUBMITTED, and the
   task is REVIEWING when the evaluator is called. *)
C7_SubmitOnlyInProgressThenReviewing ==
    [][lastEvent'.handler = "handle_task_completion" /\ lastEvent'.accepted =>
          LET i == lastEvent'.record
          IN  /\ records[i]["status"] = BOT_IN_PROGRESS
              /\ records[i]["assignee_id"] = lastEvent'.user
              /\ lastEvent'.atEval # None =>
                     /\ SUBMITTED \in {lastEvent'.writes[j] : j \in DOMAIN lastEvent'.writes}
                     /\ lastEvent'.atEval = REVIEWING]_vars

(* C8: assign succeeds only on a PENDING task and then sets the assignee, the
   assignment time and status ASSIGNED together; on a task in any other status it
   fails and changes nothing. *)
C8_AssignOnlyFromPending ==
    [][Called("assign_task_to_candidate") =>
          LET t == lastOp'.task
          IN  IF Exists(t) /\ store[t]["status"] = PENDING
              THEN lastOp'.writes # <<>> =>
                       /\ store'[t]["status"] = ASSIGNED
                       /\ store'[t]["assigned_candidate"] = lastOp'.user
                       /\ store'[t]["assigned_at"] # None
              ELSE ~lastOp'.result /\ store' = store]_vars

(* C9: cancel moves a task in any non-terminal status to CANCELLED: for every such
   task some operation is available whose effect is status CANCELLED. *)
C9_CancelAvailable ==
    \A t \in Tasks :
        Exists(t) /\ store[t]["status"] \notin Terminal =>
            ENABLED (Next /\ store'[t] # NoRow /\ store'[t]["status"] = CANCELLED)

(* C10: a request to create a task is admitted exactly when no request with the
   same key was admitted less than 300 s before it: of two requests within the
   window the first is admitted and the second rejected, and a third one made once
   the window has passed since the first is admitted. *)
C10_AdmittedOncePerWindow ==
    [][now' = now /\ lastEvent'.handler = "handle_new_task_request" =>
          LET k == lastEvent'.key
          IN  lastEvent'.admitted <=>
                  \/ k \notin DOMAIN admissions
                  \/ now - admissions[k].at >= TASK_CREATION_WINDOW]_vars

\* a request has been admitted 300 s or more after an admitted one with the same
\* key, with a request in between rejected
C10_Witness ==
    /\ lastEvent.handler = "handle_new_task_request"
    /\ lastEvent.admitted
    /\ lastEvent.key \in DOMAIN admissions
    /\ admissions[lastEvent.key].again
    /\ admissions[lastEvent.key].rejected

(* C11: of two handlers that are handling, at the same time, events with the same
   message id, or requests with the same creation key made within the window,
   exactly one was admitted: never both, in whatever order the handlers ran
   between their awaits. *)
C11_OneOfTwoConcurrentAdmitted ==
    \A h1, h2 \in Handlers :
        /\ h1 # h2
        /\ inflight[h1].pc = "busy" /\ inflight[h2].pc = "busy"
        /\ inflight[h1].id \in MsgIds /\ inflight[h2].id \in MsgIds
        => /\ inflight[h1].id = inflight[h2].id =>
                  ~(inflight[h1].outcome # "duplicate" /\ inflight[h2].outcome # "duplicate")
           /\ ~(inflight[h1].outcome = "admitted" /\ inflight[h2].outcome = "admitted")

\* the step is handler h taking the event of a message with an id of MsgIds
Presented(h) ==
    /\ inflight[h].pc = "idle"
    /\ inflight'[h].pc = "busy"
    /\ inflight'[h].id \in MsgIds

(* C12: a message id is rejected exactly when it is in the seen-set; an id that is
   admitted is in the seen-set afterwards and no id leaves the seen-set, unless
   the set is cleaned because it has grown past its bound. *)
C12_SeenIdsAreRejected ==
    [][\A h \in Handlers :
          Presented(h) =>
              LET id == inflight'[h].id
              IN  /\ inflight'[h].outcome = "duplicate" <=> id \in processed_messages.ids
                  /\ ~inflight'[h].cleaned =>
                         /\ id \in processed_messages'.ids
                         /\ processed_messages.ids \subseteq processed_messages'.ids]_vars

\* a message id admitted before has been presented again and rejected
C12_Witness ==
    \E h \in Handlers :
        /\ inflight[h].pc = "busy"
        /\ inflight[h].id \in MsgIds
        /\ inflight[h].outcome = "duplicate"
        /\ inflight[h].id \in processed_messages.ids

(* C13: the seen-set of message ids never holds more than MAX_CACHE_SIZE (1000)
   entries once a handler has passed its check of the message id. *)
C13_SeenSetBounded == Size(processed_messages) <= MAX_CACHE_SIZE

\* a handler has added the id that took the set past its bound, and the set has
\* been cleaned
C13_Witness ==
    \E h \in Handlers :
        /\ inflight[h].pc = "busy"
        /\ inflight[h].cleaned
        /\ Size(processed_messages) = MAX_CACHE_SIZE + 1 - MAX_CACHE_SIZE \div 2

(* C14: every stored task has an assignee (the candidate it was assigned to, or
   the user who accepted it) exactly when its status is one of ASSIGNED,
   IN_PROGRESS, SUBMITTED, REVIEWING, COMPLETED, REJECTED. *)
C14_AssigneeIffAssigned ==
    \A t \in Tasks :
        Exists(t) =>
            (store[t]["assignee"] # None \/ store[t]["assigned_candidate"] # None
             <=> store[t]["status"] \in {ASSIGNED, IN_PROGRESS, SUBMITTED, REVIEWING,
                                         COMPLETED, REJECTED})

(* C15: every stored task has a score exactly when its status is COMPLETED or
   REJECTED. *)
C15_ScoreIffVerdict ==
    \A t \in Tasks :
        Exists(t) =>
            (store[t]["final_score"] # NoScore <=> store[t]["status"] \in {COMPLETED, REJECTED})

(* C16: when the review evaluator fails while a submission is being evaluated, the
   task stays in the status it is reviewed in, flagged for manual review; that
   failure neither completes the task nor returns or rejects it. *)
C16_EvaluatorFailureLeavesTaskInReview ==
    [][lastEvent'.handler = "handle_task_completion" /\ lastEvent'.evalError =>
          LET i == lastEvent'.record
          IN  /\ records'[i]["status"] = lastEvent'.atEval
              /\ records'[i]["status"] \notin {DONE, RETURNED}
              /\ records'[i]["ai_score"] = records[i]["ai_score"]]_vars

(* C17: an accept of a task that is not ASSIGNED, and a submit of a task that is
   not IN_PROGRESS or by a user who is not its assignee, fails, leaves the store as
   it was and sends no notification. *)
C17_RejectedCallsChangeNothing ==
    [][LET t == lastOp'.task
           u == lastOp'.user
           illegal ==
               \/ Called("accept_task") /\ Exists(t) /\ store[t]["status"] # ASSIGNED
               \/ Called("submit_task") /\ Exists(t)
                      /\ (store[t]["status"] # IN_PROGRESS \/ store[t]["assignee"] # u)
       IN  illegal => /\ ~lastOp'.result
                      /\ store' = store
                      /\ lastOp'.sent = <<>>]_vars

\* a submit of a task that is not IN_PROGRESS has failed
C17_Witness ==
    /\ lastOp.op = "submit_task"
    /\ ~lastOp.result
    /\ Exists(lastOp.task)
    /\ store[lastOp.task]["status"] \in {PENDING, ASSIGNED}
    /\ lastOp.sent = <<>>

(* C18: no transition is applied in part: a stored task that is ASSIGNED carries
   its assignment time, one that is SUBMITTED its submission time, one that is
   COMPLETED its completion time and one that is REJECTED its rejection time. *)
C18_StatusCarriesItsTimestamp ==
    \A t \in Tasks :
        Exists(t) =>
            /\ store[t]["status"] = ASSIGNED => store[t]["assigned_at"] # None
            /\ store[t]["status"] = SUBMITTED => store[t]["submitted_at"] # None
            /\ store[t]["status"] = COMPLETED => store[t]["completed_at"] # None
            /\ store[t]["status"] = REJECTED => store[t]["rejected_at"] # None

(* C19: create rejects a specification whose title or description is missing,
   whose list of required skills is empty or whose deadline is not in the future,
   and then stores nothing; a create that succeeds stores exactly one new task,
   in PENDING, and changes no other task. *)
C19_CreateValidates ==
    [][Called("create_task") =>
          LET t == lastOp'.task
              spec == lastOp'.arg
              valid == /\ spec.absent = None
                       /\ spec.blank = None
                       /\ spec.deadline = "future"
          IN  /\ ~valid => ~lastOp'.result /\ store' = store
              /\ lastOp'.result =>
                     /\ ~Exists(t)
                     /\ store' = [store EXCEPT ![t] = store'[t]]
                     /\ store'[t] # NoRow
                     /\ store'[t]["status"] = PENDING]_vars

(* C20: a ranking has at most 3 entries, the best of the pool, in descending order
   of score, entries with equal scores in ascending order of the candidate id,
   whatever the order of the candidates in the pool. *)
C20_RankingOrder ==
    top_candidates.called /\ top_candidates.read =>
        LET r == top_candidates.result
            Before(a, b) == \/ a.match_score > b.match_score
                            \/ a.match_score = b.match_score /\ a.user_id < b.user_id
        IN  /\ Len(r) <= 3
            /\ \A i \in 1..(Len(r) - 1) : Before(r[i], r[i + 1])

\* find_top_candidates returned after it was asked to rank by the provider and had
\* a pool to rank
AskedProvider(provider) ==
    /\ top_candidates.called
    /\ top_candidates.read
    /\ top_candidates.use_llm
    /\ top_candidates.provider = provider

(* C21: when ranking by the provider is asked for and the provider times out or
   fails, the call returns the rule-based ranking of the pool it ranked: the same
   entries in the same order with the same scores, none of them from the provider. *)
C21_FailedProviderGivesRuleBasedRanking ==
    AskedProvider("timeout") \/ AskedProvider("error") =>
        /\ top_candidates.result = Top3(SortedByScore(top_candidates.pool))
        /\ \A i \in 1..Len(top_candidates.result) :
              /\ top_candidates.result[i] \in Scored
              /\ \E j \in 1..Len(top_candidates.pool) :
                    top_candidates.pool[j] = top_candidates.result[i]

C21_Witness ==
    /\ AskedProvider("timeout")
    /\ Len(top_candidates.pool) = NCands
    /\ Len(top_candidates.result) = 3

(* C22: when ranking by the provider is asked for and the provider answers with
   matches, the call returns the provider's matches and has called the provider
   exactly once. *)
C22_ProviderMatchesAreReturned ==
    AskedProvider("matches") /\ top_candidates.pool # <<>> =>
        /\ top_candidates.result = LlmMatches
        /\ top_candidates.provider_calls = 1

(* C23: every total score is 0.40*skill + 0.25*availability + 0.20*performance
   + 0.15*recency, every subscore lies in 0..100, and the whole-number total that
   is reported lies in 0..100. *)
C23_TotalIsWeightedSumInRange ==
    \A i \in 1..Len(match_scores) :
        LET m == match_scores[i].score
        IN  /\ m.total_score = 40 * m.skill_score + 25 * m.availability_score
                               + 20 * m.performance_score + 15 * m.recency_score
            /\ {m.skill_score, m.availability_score, m.performance_score,
                m.recency_score} \subseteq 0..100
            /\ IntTotal(m) \in 0..100

C23_Witness ==
    /\ match_scores # <<>>
    /\ scored.task_info.skill_tags = <<"Python">>
    /\ scored.candidate.skill_tags = <<"python">>
    /\ match_scores[1].score.skill_score = 100
    /\ IntTotal(match_scores[1].score) = 100

(* C24: two evaluations of the same task and candidate give the same subscores,
   total and reasons, whenever they are made. *)
C24_ScoringIsPure ==
    Len(match_scores) = 2 => match_scores[1].score = match_scores[2].score

\* the skill score as the claim C25 gives it
SkillScoreByParts(required_skills, candidate_skills) ==
    LET required == SetOf(Lowered(required_skills))
        offered == SetOf(Lowered(candidate_skills))
        exact == required \cap offered
        substring_only ==
            {r \in required \ exact : \E c \in offered : Within(r, c) \/ Within(c, r)}
        parts == (100 * Cardinality(exact) + 50 * Cardinality(substring_only))
                     \div Len(required_skills)
    IN  IF required_skills = <<>> THEN 100
        ELSE IF candidate_skills = <<>> THEN 0
        ELSE IF parts > 100 THEN 100 ELSE parts

(* C25: the skill subscore is 100 when the task requires no skills, 0 when the
   candidate has none, and otherwise 100 times the share of the required skills
   matched exactly plus 50 times the share matched by substring only, at most 100. *)
C25_SkillScoreByParts ==
    \A i \in 1..Len(match_scores) :
        match_scores[i].score.skill_score =
            SkillScoreByParts(scored.task_info.skill_tags, scored.candidate.skill_tags)

(* C26: a task requiring Python and FastAPI and a candidate with these skills, 40
   hours available, performance 90 and the last completion 3 days ago score
   skill 100, availability 100, performance 85, recency 100 and a total of 96. *)
C26_ExampleTotals96 ==
    \A i \in 1..Len(match_scores) :
        /\ scored.task_info = [skill_tags |-> <<"Python", "FastAPI">>,
                               complexity |-> "medium"]
        /\ scored.candidate.skill_tags = <<"Python", "FastAPI">>
        /\ scored.candidate.hours_available = 40
        /\ scored.candidate.performance = 90
        /\ scored.candidate.last_done_at = LastDone("ms", (match_scores[i].at - 3 * Day) * 1000)
        => LET m == match_scores[i].score
           IN  /\ m.skill_score = 100
               /\ m.availability_score = 100
               /\ m.performance_score = 85
               /\ m.recency_score = 100
               /\ IntTotal(m) = 96

\* the step is a call of find_top_candidates, and with it of get_cached_candidates
RankingCall ==
    /\ top_candidates'.called
    /\ now' = now
    /\ candidates' = candidates

(* C27: a call of get_cached_candidates made less than 300 s after the person
   table was read returns the cached pool and does not read the table; a call made
   300 s or more after it reads the table again and puts what it read in the cache. *)
C27_CacheServesForTtl ==
    [][RankingCall =>
          IF fetched_at # Never /\ now - fetched_at < _cache_ttl
          THEN /\ ~top_candidates'.fetched
               /\ top_candidates'.read
               /\ top_candidates'.pool = _candidates_cache.pool
               /\ UNCHANGED <<_candidates_cache, fetched_at>>
          ELSE /\ top_candidates'.fetched
               /\ top_candidates'.read =>
                     /\ top_candidates'.pool = candidates
                     /\ _candidates_cache' = [pool |-> candidates]
                     /\ fetched_at' = now]_vars

C27_Witness ==
    /\ top_candidates.called
    /\ ~top_candidates.fetched
    /\ fetched_at # Never
    /\ now - fetched_at > 0
    /\ top_candidates.pool # candidates

\* the step is a call of handle_new_task_request
AdmitCall == now' = now

(* C28: when a call of handle_new_task_request has made its check of the creation
   window, the creation cache holds no entry older than the window. *)
C28_ExpiredEntriesSwept ==
    [][AdmitCall =>
          \A k \in DOMAIN task_creation_cache' :
              now - task_creation_cache'[k] <= TASK_CREATION_WINDOW]_vars

(* C29: a transition that is repeated after it has been applied is a no-op that
   reports success: when a submission has been accepted and has passed, the same
   submission made again by the same user in the same chat is accepted and changes
   nothing. *)
C29_RepeatedSubmissionIsNoOp ==
    [][/\ lastEvent.handler = "handle_task_completion"
       /\ lastEvent.accepted
       /\ lastEvent.writes = <<BOT_IN_PROGRESS, DONE>>
       /\ lastEvent'.handler = "handle_task_completion"
       /\ lastEvent'.user = lastEvent.user
       /\ lastEvent'.chat = lastEvent.chat
       /\ lastEvent'.hasUrl
       => lastEvent'.accepted /\ records' = records]_vars

(* C30: find_top_candidates always returns a list: when the person table cannot be
   read, or whatever the provider does, no exception leaves the call, so the
   handler that awaits it together with the creation of the task is not aborted
   by it. *)
C30_RankingFailuresAreAbsorbed ==
    top_candidates.called =>
        /\ ~top_candidates.raised
        /\ ~top_candidates.read => top_candidates.result = <<>>
        /\ Len(top_candidates.result) <= 3

C30_Witness ==
    /\ top_candidates.called
    /\ ~top_candidates.read
    /\ ~top_candidates.raised
    /\ top_candidates.use_llm
    /\ top_candidates.provider = "error"
    /\ candidates # <<>>

\* the status a lifecycle notification tells of
NotifiedStatus(kind) ==
    IF kind = "assigned" THEN ASSIGNED
    ELSE IF kind = "completed" THEN COMPLETED
    ELSE REJECTED

LifecycleKinds == {"assigned", "completed", "rejected"}

(* C31: a lifecycle notification (assigned, completed, rejected) is sent only for a
   transition the call has committed to the task store: every such message a call
   has sent tells of a status the same call has written, and a call whose store
   update failed has sent none. *)
C31_NotificationsFollowCommits ==
    \A i \in 1..Len(lastOp.sent) :
        lastOp.sent[i].kind \in LifecycleKinds =>
            \E j \in 1..Len(lastOp.writes) :
                lastOp.writes[j] = NotifiedStatus(lastOp.sent[i].kind)

(* C32: when the admission of a message id takes the seen-set past its bound and
   the set is cleaned, the id just admitted is not among the ids evicted: it is in
   the seen-set when the handler goes on, so that its immediate redelivery is
   rejected. *)
C32_TriggeringIdSurvivesEviction ==
    [][\A h \in Handlers :
          Presented(h) /\ inflight'[h].cleaned =>
              Seen(processed_messages', inflight'[h].id)]_vars

\* the step is a call of handle_new_task_request that was rejected
RejectedCall ==
    /\ AdmitCall
    /\ lastEvent'.handler = "handle_new_task_request"
    /\ ~lastEvent'.admitted

(* C33: a request to create a task that is rejected leaves the creation cache as
   it was: the entry of its key still holds the time of the last admitted request
   with that key, so the window is measured from that request and a rejected
   duplicate does not extend it. *)
C33_RejectedRequestLeavesGuard ==
    [][RejectedCall =>
          /\ task_creation_cache' = task_creation_cache
          /\ lastEvent'.key \in DOMAIN admissions
          /\ task_creation_cache'[lastEvent'.key] = admissions[lastEvent'.key].at]_vars

\* a request has been rejected some time after the admitted one with its key, and
\* the entry of the key still holds the time of the admitted one
C33_Witness ==
    /\ lastEvent.handler = "handle_new_task_request"
    /\ ~lastEvent.admitted
    /\ lastEvent.key \in DOMAIN task_creation_cache
    /\ now - task_creation_cache[lastEvent.key] > 0
    /\ lastEvent.key \in DOMAIN admissions
    /\ admissions[lastEvent.key].rejected
    /\ admissions[lastEvent.key].at = task_creation_cache[lastEvent.key]

\* the number of requests the call has made to backend b
Invocations(b) == Cardinality({i \in 1..Len(matched.invoked) : matched.invoked[i] = b})

(* C34: within one call of match_candidates each backend is invoked at most once: a
   backend that has failed is not asked again in that call, whichever backend is
   the default one and whichever backends are available. *)
C34_EachBackendInvokedOnce ==
    matched.called => \A b \in BackendSet : Invocations(b) <= 1

\* the statuses that tell of a verdict
Verdicts == {COMPLETED, REJECTED}

\* the step applies a verdict to task t
AppliesVerdict(t) ==
    /\ lastOp'.task = t
    /\ \E j \in 1..Len(lastOp'.writes) : lastOp'.writes[j] \in Verdicts

(* C35: a verdict (completed or rejected) is applied to a task only for a
   submission that succeeded and has no verdict yet: the call that applies it is
   the successful submit_task itself, or it finds the task submitted or in review;
   so a verdict is never applied to a task that was not submitted and never
   written over a verdict the task already has. *)
C35_OneVerdictPerSubmission ==
    [][\A t \in Tasks :
          AppliesVerdict(t) =>
              \/ lastOp'.op = "submit_task" /\ lastOp'.result
              \/ /\ store[t] # NoRow
                 /\ store[t]["status"] \in {SUBMITTED, REVIEWING}]_vars

(* C36: two tasks that were created never share a task id, also when they were
   created within the same second; so an update addressed to a task by its task id
   is applied to the row of that task and to no other. *)
C36_TaskIdsAreDistinct ==
    /\ \A i, j \in 1..Len(task_table) :
           i # j => task_table[i].taskid # task_table[j].taskid
    /\ addressed.called /\ addressed.ok => addressed.found = addressed.meant

(* C37: the card for the selection of a candidate is sent for a task only when the
   row of the task was stored: a call of handle_new_task_command that has sent the
   card has stored the row, and the table holds a row with the task id the card
   refers to. *)
C37_CardOnlyForStoredTask ==
    commanded.called /\ commanded.card =>
        /\ commanded.save_success
        /\ Matching(task_table, commanded.task_id) # {}

\* the runs of start_monitoring that sleep between two checks and were not stopped
Running == {i \in 1..Len(loops) : loops[i].pc = "sleeping" /\ ~loops[i].stopped}

(* C38: after any sequence of /monitor start and /monitor stop at most one run of
   the monitoring loop is active: at most one run that was not stopped sleeps
   between its checks, and a run that was stopped while it slept ends at its next
   wake-up and makes no further check, also when monitoring has been started again
   in the meantime. *)
C38_AtMostOneMonitoringLoop ==
    /\ Cardinality(Running) <= 1
    /\ \A i \in 1..Len(loops) : ~loops[i].resumed

(* C39: over any number of checks each monitored task is sent the half-way
   reminder at most once and the final 24-hour reminder at most once, and no check
   of a task sends more than one reminder. *)
C39_RemindersSentOnce ==
    \A t \in MonitoredIds :
        /\ reminders[t].half <= 1
        /\ reminders[t].final <= 1
        /\ Len(checked[t]) <= 1

\* a task has been sent both reminders, by checks of two runs of the loop that go
\* on side by side, and its last check has sent nothing
C39_Witness ==
    /\ reminders["TASK_A"].half = 1
    /\ reminders["TASK_A"].final = 1
    /\ checked["TASK_A"] = <<>>
    /\ FinalKey("TASK_A") \in reminded_tasks
    /\ Cardinality({i \in 1..Len(loops) : loops[i].pc = "sleeping"}) = 2
    /\ \E i \in 1..Len(loops) : loops[i].resumed

(* C40: a message that arrives without a message id is deduplicated by the id
   generated from chat, sender, content and 10-second time bucket: a handler that
   takes such a message whose generated id is already among the processed
   messages skips it as already processed *)
C40_GeneratedIdDeduplicates ==
    [][\A h \in Handlers :
          (/\ inflight[h].pc = "idle"
           /\ inflight'[h].pc = "busy"
           /\ inflight'[h].generated \in processed_messages.ids)
              => inflight'[h].outcome = "duplicate"]_vars

====
